---- MODULE Spec2Model ----
(***************************************************************************)
(* Model of the Rose rendezvous server ("nodemaster"):                     *)
(*   - ConnectionLimiter  (src/nodemaster/src/connection_limiter.rs)       *)
(*   - Room / RoomManager (src/nodemaster/src/room.rs)                     *)
(*   - main accept loop   (src/nodemaster/src/main.rs)                     *)
(*   - handle_connection  (src/nodemaster/src/server.rs)                   *)
(*                                                                         *)
(* Every async fn is cut at its await points.  A section of code that runs *)
(* between taking a lock and dropping it, with no await inside, is one     *)
(* step.  An agent is one thread of control: the accept loop ("main") or   *)
(* the task of one connection.                                             *)
(***************************************************************************)
EXTENDS Integers, Sequences, FiniteSets, TLC

\* ------------------------------------------------------------------------
\* Bounds of the model
\* ------------------------------------------------------------------------
\* number of ConnectionLimiter calls issued in one behaviour of SpecLimiter
MaxLimiterCalls == 7
\* number of RoomManager calls issued in one behaviour of SpecRoomSeq
MaxRoomCalls == 4
\* number of RoomManager calls issued in one behaviour of SpecRoomConc
MaxConcCalls == 3
\* number of frames the connections receive in one behaviour of SpecServer and
\* of SpecServerFair
MaxFrames == 2
MaxClientOk == 2
MaxClientCmds == 2
MaxClientFrames == 1
MaxBridgeCmds == 3
MaxOverlayEvents == 1
\* UpdateSkin commands in one behaviour of SpecUpdatesFair, neighbour events
\* in one behaviour of SpecNeighborsFair
MaxUpdates == 2
MaxNeighborEvents == 2
MaxAcks == 2

\* ------------------------------------------------------------------------
\* Program constants
\* ------------------------------------------------------------------------
MAX_TOTAL_CONNECTIONS == 1000
MAX_PER_IP == 5

\* nodemaster_client.rs
INITIAL_BACKOFF_MS == 2000
MAX_BACKOFF_MS == 30000
MAX_RECONNECT_ATTEMPTS == 10

\* sidecar/server.rs: a topic is [u8; 32]
TOPIC_BYTES == 32

\* ------------------------------------------------------------------------
\* Universe
\* ------------------------------------------------------------------------
ConnSeq == <<"c1", "c2">>
Conns == {ConnSeq[i] : i \in DOMAIN ConnSeq}
MainTask == "main"
Agents == Conns \cup {MainTask}
IPs == {"ip1", "ip2"}
NoAgent == "free"
NoIp == "none"
Ids == {"a", "b"}               \* node_id strings
Tickets == {"T1", "T2"}         \* ticket strings
NoTicket == "no_ticket"         \* Option::None of a ticket
NoNode == "no_node"             \* Option::None of a node_id

\* The admission map of the model holds the entries of the IPs above.  The
\* connections of all other addresses are counted in `background': they are
\* admitted before the behaviour starts and stay open, so they appear in
\* total_connections and in no modelled entry of connections_per_ip.
BackgroundChoices == {0, MAX_TOTAL_CONNECTIONS - MAX_PER_IP}

VARIABLES
    \* ConnectionLimiterInner
    total_connections,      \* usize
    connections_per_ip,     \* HashMap<IpAddr, usize>: a function on the keys present
    limiter_lock,           \* holder of the tokio Mutex around the inner state
    lpc,                    \* per agent: position inside try_connect / disconnect
    larg,                   \* per agent: the ip argument of the call in progress
    lres,                   \* per agent: result of its last completed limiter call
    background,             \* connections of addresses outside IPs (constant)
    lcalls                  \* limiter calls issued so far (SpecLimiter only)

VARIABLES
    \* RoomManager
    rooms,                  \* HashMap<ticket, Room>; a Room is its members map
                            \*   HashMap<node_id, RoomMember>, a member is the agent
                            \*   that owns the receiving end of its sender
    client_tickets,         \* HashMap<node_id, ticket>
    queue,                  \* per agent: the ServerMessages sent on its channel
    rx_open,                \* per agent: the receiver of its channel is alive
    rpc,                    \* per agent: position inside register / leave
    rargs,                  \* per agent: ticket and node_id of the call in progress
    lticket,                \* per agent: the local `ticket' of leave
    rret,                   \* per agent: value returned by its last register
    rcalls,                 \* RoomManager calls issued so far (SpecRoom* only)
    snap                    \* history: the directory when the last call was issued

limiterVars == <<total_connections, connections_per_ip, limiter_lock, lpc, larg,
                 lres, background, lcalls>>
roomVars == <<rooms, client_tickets, queue, rx_open, rpc, rargs, lticket, rret,
              rcalls, snap>>

VARIABLES
    \* main and handle_connection
    cpc,                    \* per connection: position of its task
    cip,                    \* per connection: addr.ip()
    current_node_id,        \* per connection: Option<String>
    frame,                  \* per connection: the frame being handled
    nframes,                \* frames received so far (all connections)
    mpc,                    \* position of the accept loop
    main_conn,              \* the connection the accept loop is admitting
    releases,               \* history: limiter.disconnect calls of each task
    exit_reason,            \* history: why the read loop of each task ended
    exit_held,              \* history: current_node_id when the loop ended
    cleanup_leaves,         \* history: rooms.leave calls of each task's cleanup
    reports_ignored         \* history: the task has ignored a ReportPeerLeft

srvMain == <<mpc, main_conn>>
srvHist == <<releases, exit_reason, exit_held, cleanup_leaves, reports_ignored>>
serverVars == <<cpc, cip, current_node_id, frame, nframes, srvMain, srvHist>>

\* the limiter and room variables other than the per-task call state
limData == <<total_connections, connections_per_ip, limiter_lock, background, lcalls>>
roomData == <<rooms, client_tickets, queue, rx_open, lticket, rret, rcalls, snap>>

VARIABLES
    \* NodeMasterClient::connection_loop / process_messages (sidecar)
    nm_pc,                  \* position of the loop: connect, process, sleep, closed
    backoff_ms,             \* local backoff_ms
    attempt,                \* local attempt
    registration,           \* RegistrationInfo behind the Arc<Mutex<..>>
    cmd_rx,                 \* commands waiting in the command channel
    event_rx_open,          \* the owner still holds the receiver of the events
    ws_alive,               \* the transport of the current connection is up
    ws_sent,                \* frames sent on the current connection, in order
    nm_events,              \* history: events passed to event_tx.send since the
                            \*   last connect that returned Ok, in order
    nm_ok,                  \* history: connect_async calls that returned Ok
    nm_consec,              \* history: failed connects since the last Ok (or start)
    nm_sleeps,              \* history: delays slept since the last Ok (or start)
    nm_issued,              \* history: commands the owner has issued, in order
    nm_handled,             \* history: commands taken off the channel, in order
    nm_inputs               \* history: server frames and transport faults so far

clientVars == <<nm_pc, backoff_ms, attempt, registration, cmd_rx, event_rx_open,
                ws_alive, ws_sent, nm_events, nm_ok, nm_consec,
                nm_sleeps, nm_issued, nm_handled, nm_inputs>>

VARIABLES
    \* sidecar/server.rs: handle_connection (one bridge session) and its tasks
    bpc,                    \* position of the session task
    bcmd,                   \* locals of the command being handled
    current_topic_sender,   \* Option<GossipSender>: the topic it sends on
    current_topic,          \* _current_topic: Option<TopicId>
    current_receiver_task,  \* Option<JoinHandle>: id of the forwarder task
    nodemaster_event_task,  \* Option<JoinHandle>: id of the relay task
    nodemaster_client,      \* _nodemaster_client: Option<NodeMasterClient>
    tasks,                  \* the spawned tasks that can still run, by id
    clients,                \* the NodeMasterClients created, by id
    to_client,              \* messages sent to to_client_tx since the last
                            \*   command was received, in order
    overlay_out,            \* broadcasts made since the last command
    bridge_cmds,            \* commands received so far
    bridge_recent,          \* history: the last two commands received
    overlay_events          \* overlay and discovery events delivered so far

bridgeVars == <<bpc, bcmd, current_topic_sender, current_topic,
                current_receiver_task, nodemaster_event_task, nodemaster_client,
                tasks, clients, to_client, overlay_out, bridge_cmds,
                bridge_recent, overlay_events>>

VARIABLES
    \* two sidecars on one overlay: the forwarder task of each (server.rs
    \* 113-191) and what the overlay hands to it
    g_ticket,               \* the ticket of the room, <<>> before CreateTicket
    g_room,                 \* per node: the session holds a subscription
    g_fpc,                  \* per node: position of its forwarder task
    g_ack,                  \* per forwarder: the peer_id of the update taken
    g_delivered,            \* per node: every event its GossipReceiver was
                            \*   given, in the order of delivery
    g_taken,                \* per node: how many of them the forwarder took
    g_out,                  \* per node: messages sent to to_client_tx, in order
    g_bcast,                \* per node: the GossipMessages broadcast, in order
    \* one call of decode_ticket or encode_ticket
    tk_ticket,              \* the ticket text
    tk_decoded              \* the value decode_ticket returned for it

gossipVars == <<g_ticket, g_room, g_fpc, g_ack, g_delivered, g_taken, g_out, g_bcast>>
ticketVars == <<tk_ticket, tk_decoded>>

\* everything of the sidecar process
sidecarVars == <<clientVars, bridgeVars, gossipVars, ticketVars>>
notClientVars == <<limiterVars, roomVars, serverVars, bridgeVars, gossipVars, ticketVars>>
notBridgeVars == <<limiterVars, roomVars, serverVars, clientVars, gossipVars, ticketVars>>
notGossipVars == <<limiterVars, roomVars, serverVars, clientVars, bridgeVars, ticketVars>>
notTicketVars == <<limiterVars, roomVars, serverVars, clientVars, bridgeVars, gossipVars>>
\* everything of the nodemaster process
nodemasterVars == <<limiterVars, roomVars, serverVars>>

vars == <<limiterVars, roomVars, serverVars, sidecarVars>>
notLimiterVars == <<roomVars, serverVars, sidecarVars>>
notRoomVars == <<limiterVars, serverVars, sidecarVars>>

\* ------------------------------------------------------------------------
\* HashMap helpers
\* ------------------------------------------------------------------------
MapPut(f, k, v) == [x \in (DOMAIN f) \cup {k} |-> IF x = k THEN v ELSE f[x]]
MapRemove(f, k) == [x \in (DOMAIN f) \ {k} |-> f[x]]
EmptyMap == [x \in {} |-> 0]

\* sidecar: the texts of endpoint ids (this sidecar's and a peer's), a text
\* that is none
MyEndpointText == <<"n", "1">>
PeerEndpointText == <<"n", "2">>
EndpointTexts == {MyEndpointText, PeerEndpointText}
BadEndpointText == <<"?">>

\* nodemaster_client.rs: NMClientMessage, as a command and as a frame
NMCmd(type, ticket, node_id) == [type |-> type, ticket |-> ticket, node_id |-> node_id]
\* RegistrationInfo::default(): ticket None, node_id None
NoRegistration == [ticket |-> NoTicket, node_id |-> NoNode]

\* NodeMasterClient::connect: the channels and the memo are created and the
\* connection loop is spawned
ClientInit ==
    /\ nm_pc = "connect"
    /\ backoff_ms = INITIAL_BACKOFF_MS
    /\ attempt = 0
    /\ registration = NoRegistration
    /\ cmd_rx = <<>>
    /\ event_rx_open = TRUE
    /\ ws_alive = FALSE
    /\ ws_sent = <<>>
    /\ nm_events = <<>>
    /\ nm_ok = 0
    /\ nm_consec = 0
    /\ nm_sleeps = <<>>
    /\ nm_issued = <<>>
    /\ nm_handled = <<>>
    /\ nm_inputs = 0

\* None of an Option<TopicId>, of an Option<JoinHandle> and of an
\* Option<NodeMasterClient>
NoTopic == <<>>
NoTask == 0
NoClient == 0
NoCmd == [action |-> "none", ticket |-> <<>>, topic |-> NoTopic, skin_id |-> 0]

\* sidecar/server.rs: the state of handle_connection after the handshake
BridgeInit ==
    /\ bpc = "recv"
    /\ bcmd = NoCmd
    /\ current_topic_sender = NoTopic
    /\ current_topic = NoTopic
    /\ current_receiver_task = NoTask
    /\ nodemaster_event_task = NoTask
    /\ nodemaster_client = NoClient
    /\ tasks = EmptyMap
    /\ clients = <<>>
    /\ to_client = <<>>
    /\ overlay_out = <<>>
    /\ bridge_cmds = 0
    /\ bridge_recent = <<>>
    /\ overlay_events = 0

\* the nodes of the overlay, by the text of their endpoint ids
GNodes == EndpointTexts

\* two sidecars started, no command received yet
GossipInit ==
    /\ g_ticket = <<>>
    /\ g_room = [n \in GNodes |-> FALSE]
    /\ g_fpc = [n \in GNodes |-> "none"]
    /\ g_ack = [n \in GNodes |-> <<>>]
    /\ g_delivered = [n \in GNodes |-> <<>>]
    /\ g_taken = [n \in GNodes |-> 0]
    /\ g_out = [n \in GNodes |-> <<>>]
    /\ g_bcast = [n \in GNodes |-> <<>>]

\* no call of decode_ticket made
NotDecoded ==
    [called |-> FALSE, value |-> [some |-> FALSE, topic_bytes |-> <<>>, node_id |-> <<>>]]
TicketInit == tk_ticket = <<>> /\ tk_decoded = NotDecoded

SidecarInit == ClientInit /\ BridgeInit /\ GossipInit /\ TicketInit

\* positions of a connection task between the handshake and the cleanup
SessionPcs == {"recv", "rpl_leave", "reg_leave_old", "reg_register", "lv_leave"}

\* ------------------------------------------------------------------------
\* ConnectionLimiter
\* ------------------------------------------------------------------------
saturating_sub(x, y) == IF x >= y THEN x - y ELSE 0

\* inner.connections_per_ip.get(&ip).copied().unwrap_or(0)
ip_count(per_ip, ip) == IF ip \in DOMAIN per_ip THEN per_ip[ip] ELSE 0

\* the per-IP ceiling tested before the total ceiling
try_connect_result_IpFirst(total, per_ip, ip) ==
    IF ip_count(per_ip, ip) >= MAX_PER_IP THEN "IpLimitReached"
    ELSE IF total >= MAX_TOTAL_CONNECTIONS THEN "TotalLimitReached"
    ELSE "Ok"

\* the two checks of try_connect, in the order of the code
try_connect_result(total, per_ip, ip) ==
    IF total >= MAX_TOTAL_CONNECTIONS THEN "TotalLimitReached"
    ELSE IF ip_count(per_ip, ip) >= MAX_PER_IP THEN "IpLimitReached"
    ELSE "Ok"

\* *inner.connections_per_ip.entry(ip).or_insert(0) += 1
per_ip_after_connect(per_ip, ip) == MapPut(per_ip, ip, ip_count(per_ip, ip) + 1)

\* inner.total_connections = inner.total_connections.saturating_sub(1)
total_after_disconnect(total) == saturating_sub(total, 1)

\* a disconnect that keeps the entry of an IP whose count has reached zero
per_ip_after_disconnect_KeepZero(per_ip, ip) ==
    IF ip \in DOMAIN per_ip
    THEN MapPut(per_ip, ip, saturating_sub(per_ip[ip], 1))
    ELSE per_ip

\* if let Some(count) = get_mut(&ip) { *count = sat_sub(1); if 0 { remove } }
per_ip_after_disconnect(per_ip, ip) ==
    IF ip \in DOMAIN per_ip
    THEN IF saturating_sub(per_ip[ip], 1) = 0
         THEN MapRemove(per_ip, ip)
         ELSE MapPut(per_ip, ip, saturating_sub(per_ip[ip], 1))
    ELSE per_ip

\* a lock that admits a second holder
MutexFree_NoExclusion == TRUE

\* tokio Mutex: lock().await completes only while nobody holds the guard
MutexFree == limiter_lock = NoAgent

\* entry of try_connect(ip) / disconnect(ip): the caller reaches lock().await
begin_try_connect(p, ip) ==
    /\ lpc[p] = "idle"
    /\ lpc' = [lpc EXCEPT ![p] = "tc_wait"]
    /\ larg' = [larg EXCEPT ![p] = ip]
    /\ lres' = [lres EXCEPT ![p] = "pending"]

begin_disconnect(p, ip) ==
    /\ lpc[p] = "idle"
    /\ lpc' = [lpc EXCEPT ![p] = "dc_wait"]
    /\ larg' = [larg EXCEPT ![p] = ip]
    /\ lres' = [lres EXCEPT ![p] = "pending"]

\* lock().await, then a check fails: return Err(..), the guard is dropped
TryConnectReject(p) ==
    /\ lpc[p] = "tc_wait"
    /\ MutexFree
    /\ try_connect_result(total_connections, connections_per_ip, larg[p]) # "Ok"
    /\ lres' = [lres EXCEPT ![p] =
                  try_connect_result(total_connections, connections_per_ip, larg[p])]
    /\ lpc' = [lpc EXCEPT ![p] = "idle"]
    /\ larg' = [larg EXCEPT ![p] = NoIp]
    /\ UNCHANGED <<total_connections, connections_per_ip, limiter_lock, background,
                   lcalls>>
    /\ UNCHANGED notLimiterVars

\* lock().await, then both checks pass; the guard is kept
TryConnectPass(p) ==
    /\ lpc[p] = "tc_wait"
    /\ MutexFree
    /\ try_connect_result(total_connections, connections_per_ip, larg[p]) = "Ok"
    /\ limiter_lock' = p
    /\ lpc' = [lpc EXCEPT ![p] = "tc_incr"]
    /\ UNCHANGED <<total_connections, connections_per_ip, larg, lres, background,
                   lcalls>>
    /\ UNCHANGED notLimiterVars

\* accept: increment both counters, return Ok(()), the guard is dropped
TryConnectAccept(p) ==
    /\ lpc[p] = "tc_incr"
    /\ total_connections' = total_connections + 1
    /\ connections_per_ip' = per_ip_after_connect(connections_per_ip, larg[p])
    /\ lres' = [lres EXCEPT ![p] = "Ok"]
    /\ lpc' = [lpc EXCEPT ![p] = "idle"]
    /\ limiter_lock' = NoAgent
    /\ larg' = [larg EXCEPT ![p] = NoIp]
    /\ UNCHANGED <<background, lcalls>>
    /\ UNCHANGED notLimiterVars

\* lock().await and the body of disconnect; the guard is dropped at the end
DisconnectBody(p) ==
    /\ lpc[p] = "dc_wait"
    /\ MutexFree
    /\ total_connections' = total_after_disconnect(total_connections)
    /\ connections_per_ip' = per_ip_after_disconnect(connections_per_ip, larg[p])
    /\ lres' = [lres EXCEPT ![p] = "Released"]
    /\ lpc' = [lpc EXCEPT ![p] = "idle"]
    /\ larg' = [larg EXCEPT ![p] = NoIp]
    /\ UNCHANGED <<limiter_lock, background, lcalls>>
    /\ UNCHANGED notLimiterVars

LimiterInit ==
    /\ background \in BackgroundChoices
    /\ total_connections = background
    /\ connections_per_ip = EmptyMap
    /\ limiter_lock = NoAgent
    /\ lpc = [p \in Agents |-> "idle"]
    /\ larg = [p \in Agents |-> NoIp]
    /\ lres = [p \in Agents |-> "none"]
    /\ lcalls = 0

\* ------------------------------------------------------------------------
\* protocol.rs: ServerMessage
\* ------------------------------------------------------------------------
Msg(type, node_id, node_ids) == [type |-> type, node_id |-> node_id, node_ids |-> node_ids]
PeersMsg(node_ids) == Msg("peers", NoNode, node_ids)
PeerJoined(node_id) == Msg("peer_joined", node_id, {})
PeerLeft(node_id) == Msg("peer_left", node_id, {})
Pong == Msg("pong", NoNode, {})
ErrorMsg == Msg("error", NoNode, {})

\* ------------------------------------------------------------------------
\* Room
\* ------------------------------------------------------------------------
RECURSIVE Repeat(_, _)
Repeat(m, k) == IF k = 0 THEN <<>> ELSE <<m>> \o Repeat(m, k - 1)

\* for member in members.values() { let _ = member.sender.send(msg); }
\* an UnboundedSender::send fails, and is ignored, once the receiver is dropped
Notify(q, open, members, msg) ==
    [ch \in DOMAIN q |->
        IF open[ch]
        THEN q[ch] \o Repeat(msg, Cardinality({n \in DOMAIN members : members[n] = ch}))
        ELSE q[ch]]

\* rooms.entry(ticket).or_insert_with(Room::new)
room_or_new(rs, ticket) == IF ticket \in DOMAIN rs THEN rs[ticket] ELSE EmptyMap

\* Room::add_member: the value returned
existing_peers(members) == DOMAIN members

\* Room::add_member: the notifications, sent before the insertion
queue_after_add(q, open, members, node_id) ==
    Notify(q, open, members, PeerJoined(node_id))

\* Room::add_member: the insertion
members_after_add(members, node_id, sender) == MapPut(members, node_id, sender)

\* Room::remove_member: the removal
members_after_remove(members, node_id) == MapRemove(members, node_id)

\* the notifications sent to the members as they were before the removal
queue_after_remove_NotifyAll(q, open, members, node_id) ==
    Notify(q, open, members, PeerLeft(node_id))

\* Room::remove_member: the notifications, sent to the members that remain
queue_after_remove(q, open, members, node_id) ==
    Notify(q, open, members_after_remove(members, node_id), PeerLeft(node_id))

\* Room::is_empty
is_empty(members) == DOMAIN members = {}

\* ------------------------------------------------------------------------
\* RoomManager
\* ------------------------------------------------------------------------
\* leave that keeps a room whose last member has gone
rooms_after_leave_KeepEmpty(rs, ticket, node_id) ==
    IF ticket \in DOMAIN rs
    THEN MapPut(rs, ticket, members_after_remove(rs[ticket], node_id))
    ELSE rs

\* leave, second critical section: the rooms map afterwards
rooms_after_leave(rs, ticket, node_id) ==
    IF ticket \in DOMAIN rs
    THEN IF is_empty(members_after_remove(rs[ticket], node_id))
         THEN MapRemove(rs, ticket)
         ELSE MapPut(rs, ticket, members_after_remove(rs[ticket], node_id))
    ELSE rs

\* leave, second critical section: the channels afterwards
queue_after_leave(q, open, rs, ticket, node_id) ==
    IF ticket \in DOMAIN rs
    THEN queue_after_remove(q, open, rs[ticket], node_id)
    ELSE q

\* register that never leaves the room held before
holds_other_ticket_Never(ct, ticket, node_id) == FALSE

\* register, first critical section: Some(old_ticket) with old_ticket != ticket
holds_other_ticket(ct, ticket, node_id) ==
    node_id \in DOMAIN ct /\ ct[node_id] # ticket

\* no call in progress
NoArgs == [ticket |-> NoTicket, node_id |-> NoNode]

\* entry of register(ticket, node_id, sender): client_tickets.read().await
begin_register(p, ticket, node_id) ==
    /\ rpc[p] = "idle"
    /\ rpc' = [rpc EXCEPT ![p] = "reg_check"]
    /\ rargs' = [rargs EXCEPT ![p] = [ticket |-> ticket, node_id |-> node_id]]

\* entry of leave(node_id): client_tickets.write().await
begin_leave(p, node_id) ==
    /\ rpc[p] = "idle"
    /\ rpc' = [rpc EXCEPT ![p] = "lv_index"]
    /\ rargs' = [rargs EXCEPT ![p] = [ticket |-> NoTicket, node_id |-> node_id]]

\* register: look the node up under the read lock; the guard is dropped before
\* leave is awaited
RegisterCheck(p) ==
    /\ rpc[p] = "reg_check"
    /\ rpc' = [rpc EXCEPT ![p] =
                 IF holds_other_ticket(client_tickets, rargs[p].ticket, rargs[p].node_id)
                 THEN "reg_lv_index" ELSE "reg_record"]
    /\ UNCHANGED <<rooms, client_tickets, queue, rx_open, rargs, lticket, rret,
                   rcalls, snap>>
    /\ UNCHANGED notRoomVars

\* leave: let ticket = client_tickets.write().await.remove(node_id)
\* (called directly, or from register)
LeaveIndex(p) ==
    /\ rpc[p] \in {"lv_index", "reg_lv_index"}
    /\ client_tickets' = MapRemove(client_tickets, rargs[p].node_id)
    /\ lticket' = [lticket EXCEPT ![p] =
                     IF rargs[p].node_id \in DOMAIN client_tickets
                     THEN client_tickets[rargs[p].node_id] ELSE NoTicket]
    /\ rpc' = [rpc EXCEPT ![p] =
                 IF rargs[p].node_id \in DOMAIN client_tickets
                 THEN (IF rpc[p] = "lv_index" THEN "lv_rooms" ELSE "reg_lv_rooms")
                 ELSE (IF rpc[p] = "lv_index" THEN "idle" ELSE "reg_record")]
    /\ rargs' = [rargs EXCEPT ![p] = IF rpc'[p] = "idle" THEN NoArgs ELSE @]
    /\ UNCHANGED <<rooms, queue, rx_open, rret, rcalls, snap>>
    /\ UNCHANGED notRoomVars

\* leave: if let Some(ticket) { rooms.write().await; remove_member; clean up }
LeaveRooms(p) ==
    /\ rpc[p] \in {"lv_rooms", "reg_lv_rooms"}
    /\ rooms' = rooms_after_leave(rooms, lticket[p], rargs[p].node_id)
    /\ queue' = queue_after_leave(queue, rx_open, rooms, lticket[p], rargs[p].node_id)
    /\ rpc' = [rpc EXCEPT ![p] = IF rpc[p] = "lv_rooms" THEN "idle" ELSE "reg_record"]
    /\ rargs' = [rargs EXCEPT ![p] = IF rpc'[p] = "idle" THEN NoArgs ELSE @]
    /\ lticket' = [lticket EXCEPT ![p] = NoTicket]
    /\ UNCHANGED <<client_tickets, rx_open, rret, rcalls, snap>>
    /\ UNCHANGED notRoomVars

\* register: client_tickets.write().await.insert(node_id, ticket)
RegisterRecord(p) ==
    /\ rpc[p] = "reg_record"
    /\ client_tickets' = MapPut(client_tickets, rargs[p].node_id, rargs[p].ticket)
    /\ rpc' = [rpc EXCEPT ![p] = "reg_join"]
    /\ UNCHANGED <<rooms, queue, rx_open, rargs, lticket, rret, rcalls, snap>>
    /\ UNCHANGED notRoomVars

\* register: rooms.write().await; entry(ticket).or_insert_with; add_member
\* the sender passed is the channel of the calling task
RegisterJoin(p) ==
    /\ rpc[p] = "reg_join"
    /\ rret' = [rret EXCEPT ![p] = existing_peers(room_or_new(rooms, rargs[p].ticket))]
    /\ queue' = queue_after_add(queue, rx_open, room_or_new(rooms, rargs[p].ticket),
                                rargs[p].node_id)
    /\ rooms' = MapPut(rooms, rargs[p].ticket,
                       members_after_add(room_or_new(rooms, rargs[p].ticket),
                                         rargs[p].node_id, p))
    /\ rpc' = [rpc EXCEPT ![p] = "idle"]
    /\ rargs' = [rargs EXCEPT ![p] = NoArgs]
    /\ UNCHANGED <<client_tickets, rx_open, lticket, rcalls, snap>>
    /\ UNCHANGED notRoomVars

NoSnap == [op |-> "none", agent |-> NoAgent, ticket |-> NoTicket, node_id |-> NoNode,
           rooms |-> EmptyMap, client_tickets |-> EmptyMap,
           queue |-> [p \in Agents |-> <<>>],
           prev |-> [op |-> "none", ticket |-> NoTicket, node_id |-> NoNode,
                     fresh |-> FALSE]]

\* RoomManager::new, and a channel per task
RoomInit ==
    /\ rooms = EmptyMap
    /\ client_tickets = EmptyMap
    /\ queue = [p \in Agents |-> <<>>]
    /\ rx_open = [p \in Agents |-> TRUE]
    /\ rpc = [p \in Agents |-> "idle"]
    /\ rargs = [p \in Agents |-> NoArgs]
    /\ lticket = [p \in Agents |-> NoTicket]
    /\ rret = [p \in Agents |-> {}]
    /\ rcalls = 0
    /\ snap = NoSnap

\* protocol.rs: ClientMessage, and the frames that are no ClientMessage
FrameOf(type, ticket, node_id) == [type |-> type, ticket |-> ticket, node_id |-> node_id]
NoFrame == FrameOf("none", NoTicket, NoNode)

\* before the first accept: no task, no frame
ServerInit ==
    /\ cpc = [c \in Conns |-> "unborn"]
    /\ cip = [c \in Conns |-> NoIp]
    /\ current_node_id = [c \in Conns |-> NoNode]
    /\ frame = [c \in Conns |-> NoFrame]
    /\ nframes = 0
    /\ mpc = "accept"
    /\ main_conn = NoAgent
    /\ releases = [c \in Conns |-> 0]
    /\ exit_reason = [c \in Conns |-> "none"]
    /\ exit_held = [c \in Conns |-> NoNode]
    /\ cleanup_leaves = [c \in Conns |-> <<>>]
    /\ reports_ignored = [c \in Conns |-> FALSE]

RoomSteps == \E p \in Conns :
                 \/ RegisterCheck(p)
                 \/ LeaveIndex(p)
                 \/ LeaveRooms(p)
                 \/ RegisterRecord(p)
                 \/ RegisterJoin(p)

AllIdle == \A p \in Agents : rpc[p] = "idle"

\* the directory as the call finds it, and what the call before it was
SnapOf(op, p, ticket, node_id) ==
    [op |-> op, agent |-> p, ticket |-> ticket, node_id |-> node_id,
     rooms |-> rooms, client_tickets |-> client_tickets, queue |-> queue,
     prev |-> [op |-> snap.op, ticket |-> snap.ticket, node_id |-> snap.node_id,
               fresh |-> snap.ticket \notin DOMAIN snap.rooms]]

\* ------------------------------------------------------------------------
\* SpecRoomSeq: register / leave called one after the other
\* ------------------------------------------------------------------------
SeqRegister(p, ticket, node_id) ==
    /\ rcalls < MaxRoomCalls
    /\ AllIdle
    /\ begin_register(p, ticket, node_id)
    /\ rcalls' = rcalls + 1
    /\ snap' = SnapOf("register", p, ticket, node_id)
    /\ UNCHANGED <<rooms, client_tickets, queue, rx_open, lticket, rret>>
    /\ UNCHANGED notRoomVars

SeqLeave(p, node_id) ==
    /\ rcalls < MaxRoomCalls
    /\ AllIdle
    /\ begin_leave(p, node_id)
    /\ rcalls' = rcalls + 1
    /\ snap' = SnapOf("leave", p, NoTicket, node_id)
    /\ UNCHANGED <<rooms, client_tickets, queue, rx_open, lticket, rret>>
    /\ UNCHANGED notRoomVars

SeqCalls == \E p \in Conns : \E node_id \in Ids :
                \/ \E ticket \in Tickets : SeqRegister(p, ticket, node_id)
                \/ SeqLeave(p, node_id)

InitRoomSeq == LimiterInit /\ background = 0 /\ RoomInit /\ ServerInit /\ SidecarInit
NextRoomSeq == SeqCalls \/ RoomSteps
SpecRoomSeq == InitRoomSeq /\ [][NextRoomSeq]_vars

\* ------------------------------------------------------------------------
\* SpecRoomConc: register / leave called by concurrent tasks
\* ------------------------------------------------------------------------
ConcRegister(p, ticket, node_id) ==
    /\ rcalls < MaxConcCalls
    /\ begin_register(p, ticket, node_id)
    /\ rcalls' = rcalls + 1
    /\ UNCHANGED <<rooms, client_tickets, queue, rx_open, lticket, rret, snap>>
    /\ UNCHANGED notRoomVars

ConcLeave(p, node_id) ==
    /\ rcalls < MaxConcCalls
    /\ begin_leave(p, node_id)
    /\ rcalls' = rcalls + 1
    /\ UNCHANGED <<rooms, client_tickets, queue, rx_open, lticket, rret, snap>>
    /\ UNCHANGED notRoomVars

ConcCalls == \E p \in Conns : \E node_id \in Ids :
                 \/ \E ticket \in Tickets : ConcRegister(p, ticket, node_id)
                 \/ ConcLeave(p, node_id)

InitRoomConc == LimiterInit /\ background = 0 /\ RoomInit /\ ServerInit /\ SidecarInit
NextRoomConc == ConcCalls \/ RoomSteps
SpecRoomConc == InitRoomConc /\ [][NextRoomConc]_vars

\* ------------------------------------------------------------------------
\* SpecLimiter: any agent calls try_connect / disconnect with any address
\* ------------------------------------------------------------------------
CallTryConnect(p, ip) ==
    /\ lcalls < MaxLimiterCalls
    /\ begin_try_connect(p, ip)
    /\ lcalls' = lcalls + 1
    /\ UNCHANGED <<total_connections, connections_per_ip, limiter_lock, background>>
    /\ UNCHANGED notLimiterVars

CallDisconnect(p, ip) ==
    /\ lcalls < MaxLimiterCalls
    /\ begin_disconnect(p, ip)
    /\ lcalls' = lcalls + 1
    /\ UNCHANGED <<total_connections, connections_per_ip, limiter_lock, background>>
    /\ UNCHANGED notLimiterVars

LimiterCalls == \E p \in Conns : \E ip \in IPs :
                    CallTryConnect(p, ip) \/ CallDisconnect(p, ip)
LimiterSteps == \E p \in Agents :
                    \/ TryConnectReject(p)
                    \/ TryConnectPass(p)
                    \/ TryConnectAccept(p)
                    \/ DisconnectBody(p)

InitLimiter == LimiterInit /\ RoomInit /\ ServerInit /\ SidecarInit
NextLimiter == LimiterCalls \/ LimiterSteps
SpecLimiter == InitLimiter /\ [][NextLimiter]_vars

\* ------------------------------------------------------------------------
\* main.rs: the accept loop
\* ------------------------------------------------------------------------
\* connections are named in the order in which listener.accept() yields them
NextConn == ConnSeq[Cardinality({c \in Conns : cpc[c] # "unborn"}) + 1]

\* let (stream, addr) = listener.accept().await?; limiter.try_connect(ip).await
MainAccept(c, ip) ==
    /\ mpc = "accept"
    /\ \E d \in Conns : cpc[d] = "unborn"
    /\ c = NextConn
    /\ begin_try_connect(MainTask, ip)
    /\ cip' = [cip EXCEPT ![c] = ip]
    /\ cpc' = [cpc EXCEPT ![c] = "admitting"]
    /\ mpc' = "admit"
    /\ main_conn' = c
    /\ UNCHANGED <<limData, roomVars, current_node_id, frame, nframes, srvHist>>
    /\ UNCHANGED sidecarVars

\* if let Err(e) = try_connect { drop(stream); continue }  else tokio::spawn
MainAdmit ==
    /\ mpc = "admit"
    /\ lpc[MainTask] = "idle"
    /\ cpc' = [cpc EXCEPT ![main_conn] =
                 IF lres[MainTask] = "Ok" THEN "handshake" ELSE "rejected"]
    /\ cip' = [cip EXCEPT ![main_conn] = IF lres[MainTask] = "Ok" THEN @ ELSE NoIp]
    /\ lres' = [lres EXCEPT ![MainTask] = "none"]
    /\ mpc' = "accept"
    /\ main_conn' = NoAgent
    /\ UNCHANGED <<limData, lpc, larg, roomVars, current_node_id, frame, nframes,
                   srvHist>>
    /\ UNCHANGED sidecarVars

\* ------------------------------------------------------------------------
\* server.rs: handle_connection
\* ------------------------------------------------------------------------
\* a failed handshake that returns without releasing the slot
HandshakeFail_NoRelease(c) ==
    /\ cpc[c] = "handshake"
    /\ cpc' = [cpc EXCEPT ![c] = "closed"]
    /\ cip' = [cip EXCEPT ![c] = NoIp]
    /\ exit_reason' = [exit_reason EXCEPT ![c] = "handshake"]
    /\ UNCHANGED <<limiterVars, roomVars, current_node_id, frame, nframes, srvMain,
                   releases, exit_held, cleanup_leaves, reports_ignored>>
    /\ UNCHANGED sidecarVars

\* accept_async fails: limiter.disconnect(addr.ip()).await; return
HandshakeFail(c) ==
    /\ cpc[c] = "handshake"
    /\ begin_disconnect(c, cip[c])
    /\ cpc' = [cpc EXCEPT ![c] = "hs_disc"]
    /\ releases' = [releases EXCEPT ![c] = @ + 1]
    /\ exit_reason' = [exit_reason EXCEPT ![c] = "handshake"]
    /\ UNCHANGED <<limData, roomVars, cip, current_node_id, frame, nframes, srvMain,
                   exit_held, cleanup_leaves, reports_ignored>>
    /\ UNCHANGED sidecarVars

\* the return after the disconnect of a failed handshake
HandshakeFailReturn(c) ==
    /\ cpc[c] = "hs_disc"
    /\ lpc[c] = "idle"
    /\ cpc' = [cpc EXCEPT ![c] = "closed"]
    /\ cip' = [cip EXCEPT ![c] = NoIp]
    /\ lres' = [lres EXCEPT ![c] = "none"]
    /\ UNCHANGED <<limData, lpc, larg, roomVars, current_node_id, frame, nframes,
                   srvMain, srvHist>>
    /\ UNCHANGED sidecarVars

\* accept_async succeeds: split, channel, current_node_id = None, send_task
HandshakeOk(c) ==
    /\ cpc[c] = "handshake"
    /\ cpc' = [cpc EXCEPT ![c] = "recv"]
    /\ current_node_id' = [current_node_id EXCEPT ![c] = NoNode]
    /\ UNCHANGED <<limiterVars, roomVars, cip, frame, nframes, srvMain, srvHist>>
    /\ UNCHANGED sidecarVars

\* tx.send(msg) on the connection's own channel
SendOwn(q, open, c, msg) == IF open[c] THEN [q EXCEPT ![c] = Append(@, msg)] ELSE q


\* the break taken: the Err(_) arm of the timeout, or an arm of the message match
ExitClass(reason) == IF reason = "timeout" THEN "timeout" ELSE "stream"

\* the read loop ends: timeout elapsed, stream closed (None), Close frame, or Err
\* then the cleanup starts: leave for the held node_id, if any, else the release
RecvBreak(c, reason) ==
    /\ cpc[c] = "recv"
    /\ exit_reason' = [exit_reason EXCEPT ![c] = ExitClass(reason)]
    /\ exit_held' = [exit_held EXCEPT ![c] = current_node_id[c]]
    /\ IF current_node_id[c] # NoNode
       THEN /\ begin_leave(c, current_node_id[c])
            /\ cpc' = [cpc EXCEPT ![c] = "cl_leave"]
            /\ cleanup_leaves' = [cleanup_leaves EXCEPT ![c] =
                                    Append(@, current_node_id[c])]
            /\ UNCHANGED <<lpc, larg, lres, releases>>
       ELSE /\ begin_disconnect(c, cip[c])
            /\ cpc' = [cpc EXCEPT ![c] = "cl_disc"]
            /\ releases' = [releases EXCEPT ![c] = @ + 1]
            /\ UNCHANGED <<rpc, rargs, cleanup_leaves>>
    /\ UNCHANGED <<limData, roomData, cip, current_node_id, frame, nframes, srvMain,
                   reports_ignored>>
    /\ UNCHANGED sidecarVars

\* a cleanup that releases the slot only when no node_id was held
CleanupRelease_Skip(c) ==
    /\ cpc[c] = "cl_leave"
    /\ rpc[c] = "idle"
    /\ cpc' = [cpc EXCEPT ![c] = "closed"]
    /\ rx_open' = [rx_open EXCEPT ![c] = FALSE]
    /\ current_node_id' = [current_node_id EXCEPT ![c] = NoNode]
    /\ cip' = [cip EXCEPT ![c] = NoIp]
    /\ UNCHANGED <<limiterVars, rooms, client_tickets, queue, rpc, rargs, lticket,
                   rret, rcalls, snap, frame, nframes, srvMain, srvHist>>
    /\ UNCHANGED sidecarVars

\* cleanup, after leave: limiter.disconnect(addr.ip()).await
CleanupRelease(c) ==
    /\ cpc[c] = "cl_leave"
    /\ rpc[c] = "idle"
    /\ begin_disconnect(c, cip[c])
    /\ cpc' = [cpc EXCEPT ![c] = "cl_disc"]
    /\ releases' = [releases EXCEPT ![c] = @ + 1]
    /\ UNCHANGED <<limData, roomVars, cip, current_node_id, frame, nframes, srvMain,
                   exit_reason, exit_held, cleanup_leaves, reports_ignored>>
    /\ UNCHANGED sidecarVars

\* cleanup, after disconnect: send_task.abort() drops rx; the task ends and its
\* locals with it
CleanupAbort(c) ==
    /\ cpc[c] = "cl_disc"
    /\ lpc[c] = "idle"
    /\ cpc' = [cpc EXCEPT ![c] = "closed"]
    /\ rx_open' = [rx_open EXCEPT ![c] = FALSE]
    /\ current_node_id' = [current_node_id EXCEPT ![c] = NoNode]
    /\ cip' = [cip EXCEPT ![c] = NoIp]
    /\ lres' = [lres EXCEPT ![c] = "none"]
    /\ UNCHANGED <<limData, lpc, larg, rooms, client_tickets, queue, rpc, rargs,
                   lticket, rret, rcalls, snap, frame, nframes, srvMain, srvHist>>
    /\ UNCHANGED sidecarVars

\* Ok(Message::Ping(_)) => continue, Ok(_) => continue
RecvIgnored(c) ==
    /\ cpc[c] = "recv"
    /\ nframes < MaxFrames
    /\ nframes' = nframes + 1
    /\ UNCHANGED frame
    /\ UNCHANGED <<limiterVars, roomVars, cpc, cip, current_node_id, srvMain, srvHist>>
    /\ UNCHANGED sidecarVars

\* a parse error ends the read loop like a transport error
RecvMalformed_Break(c) == RecvBreak(c, "error")

\* serde_json::from_str fails: tx.send(Error{..}); continue
RecvMalformed(c) ==
    /\ cpc[c] = "recv"
    /\ nframes < MaxFrames
    /\ nframes' = nframes + 1
    /\ UNCHANGED frame
    /\ queue' = SendOwn(queue, rx_open, c, ErrorMsg)
    /\ UNCHANGED <<limiterVars, rooms, client_tickets, rx_open, rpc, rargs, lticket,
                   rret, rcalls, snap, cpc, cip, current_node_id, srvMain, srvHist>>
    /\ UNCHANGED sidecarVars

\* ClientMessage::Ping => tx.send(Pong)
RecvPing(c) ==
    /\ cpc[c] = "recv"
    /\ nframes < MaxFrames
    /\ nframes' = nframes + 1
    /\ UNCHANGED frame
    /\ queue' = SendOwn(queue, rx_open, c, Pong)
    /\ UNCHANGED <<limiterVars, rooms, client_tickets, rx_open, rpc, rargs, lticket,
                   rret, rcalls, snap, cpc, cip, current_node_id, srvMain, srvHist>>
    /\ UNCHANGED sidecarVars

\* a report honoured from any connection
report_honoured_Always(cur) == TRUE

\* ClientMessage::ReportPeerLeft: if current_node_id.is_some()
report_honoured(cur) == cur # NoNode

\* ClientMessage::ReportPeerLeft { node_id }
RecvReportPeerLeft(c, node_id) ==
    /\ cpc[c] = "recv"
    /\ nframes < MaxFrames
    /\ nframes' = nframes + 1
    /\ IF report_honoured(current_node_id[c])
       THEN /\ begin_leave(c, node_id)
            /\ cpc' = [cpc EXCEPT ![c] = "rpl_leave"]
            /\ frame' = [frame EXCEPT ![c] = FrameOf("report_peer_left", NoTicket, node_id)]
            /\ UNCHANGED reports_ignored
       ELSE /\ reports_ignored' = [reports_ignored EXCEPT ![c] = TRUE]
            /\ UNCHANGED <<rpc, rargs, cpc, frame>>
    /\ UNCHANGED <<limiterVars, roomData, cip, current_node_id, srvMain, releases,
                   exit_reason, exit_held, cleanup_leaves>>
    /\ UNCHANGED sidecarVars

\* ClientMessage::Leave: if let Some(node_id) = current_node_id { rooms.leave }
RecvLeave(c) ==
    /\ cpc[c] = "recv"
    /\ nframes < MaxFrames
    /\ nframes' = nframes + 1
    /\ IF current_node_id[c] # NoNode
       THEN /\ begin_leave(c, current_node_id[c])
            /\ cpc' = [cpc EXCEPT ![c] = "lv_leave"]
            /\ frame' = [frame EXCEPT ![c] = FrameOf("leave", NoTicket, NoNode)]
       ELSE UNCHANGED <<rpc, rargs, cpc, frame>>
    /\ UNCHANGED <<limiterVars, roomData, cip, current_node_id, srvMain, srvHist>>
    /\ UNCHANGED sidecarVars

\* a Register that never leaves the node_id held before
leaves_old_first_Never(cur, node_id) == FALSE

\* Register: if let Some(old_id) = &current_node_id { if old_id != &node_id {
leaves_old_first(cur, node_id) == cur # NoNode /\ cur # node_id

\* ClientMessage::Register { ticket, node_id }: leave the node_id held before if
\* it differs, else set current_node_id and call rooms.register
RecvRegister(c, ticket, node_id) ==
    /\ cpc[c] = "recv"
    /\ nframes < MaxFrames
    /\ nframes' = nframes + 1
    /\ frame' = [frame EXCEPT ![c] = FrameOf("register", ticket, node_id)]
    /\ IF leaves_old_first(current_node_id[c], node_id)
       THEN /\ begin_leave(c, current_node_id[c])
            /\ cpc' = [cpc EXCEPT ![c] = "reg_leave_old"]
            /\ UNCHANGED current_node_id
       ELSE /\ begin_register(c, ticket, node_id)
            /\ cpc' = [cpc EXCEPT ![c] = "reg_register"]
            /\ current_node_id' = [current_node_id EXCEPT ![c] = node_id]
    /\ UNCHANGED <<limiterVars, roomData, cip, srvMain, srvHist>>
    /\ UNCHANGED sidecarVars

\* Register, after the leave of the old node_id: current_node_id = Some(node_id);
\* rooms.register(ticket, node_id, tx.clone()).await
RegisterAfterLeave(c) ==
    /\ cpc[c] = "reg_leave_old"
    /\ rpc[c] = "idle"
    /\ begin_register(c, frame[c].ticket, frame[c].node_id)
    /\ cpc' = [cpc EXCEPT ![c] = "reg_register"]
    /\ current_node_id' = [current_node_id EXCEPT ![c] = frame[c].node_id]
    /\ UNCHANGED <<limiterVars, roomData, cip, frame, nframes, srvMain, srvHist>>
    /\ UNCHANGED sidecarVars

\* Register, after rooms.register: tx.send(Peers { node_ids: peers })
RegisterSendPeers(c) ==
    /\ cpc[c] = "reg_register"
    /\ rpc[c] = "idle"
    /\ queue' = SendOwn(queue, rx_open, c, PeersMsg(rret[c]))
    /\ cpc' = [cpc EXCEPT ![c] = "recv"]
    /\ frame' = [frame EXCEPT ![c] = NoFrame]
    /\ rret' = [rret EXCEPT ![c] = {}]
    /\ UNCHANGED <<limiterVars, rooms, client_tickets, rx_open, rpc, rargs, lticket,
                   rcalls, snap, cip, current_node_id, nframes, srvMain, srvHist>>
    /\ UNCHANGED sidecarVars

\* Leave, after rooms.leave: current_node_id = None
LeaveDone(c) ==
    /\ cpc[c] = "lv_leave"
    /\ rpc[c] = "idle"
    /\ current_node_id' = [current_node_id EXCEPT ![c] = NoNode]
    /\ cpc' = [cpc EXCEPT ![c] = "recv"]
    /\ frame' = [frame EXCEPT ![c] = NoFrame]
    /\ UNCHANGED <<limiterVars, roomVars, cip, nframes, srvMain, srvHist>>
    /\ UNCHANGED sidecarVars

\* ReportPeerLeft, after rooms.leave: back to the head of the loop
ReportDone(c) ==
    /\ cpc[c] = "rpl_leave"
    /\ rpc[c] = "idle"
    /\ cpc' = [cpc EXCEPT ![c] = "recv"]
    /\ frame' = [frame EXCEPT ![c] = NoFrame]
    /\ UNCHANGED <<limiterVars, roomVars, cip, current_node_id, nframes, srvMain,
                   srvHist>>
    /\ UNCHANGED sidecarVars

\* the limiter as main() finds it: new(), or with connections admitted earlier
\* that stay open (counted in background)
ServerBackgrounds ==
    { [total |-> 0, per_ip |-> EmptyMap],
      [total |-> MAX_TOTAL_CONNECTIONS - 1, per_ip |-> EmptyMap],
      [total |-> MAX_PER_IP - 1, per_ip |-> [ip \in {"ip1"} |-> MAX_PER_IP - 1]] }

\* main() starts from one of the limiter states in B
ServerLimiterInit(B) ==
    /\ \E b \in B :
          /\ background = b.total
          /\ total_connections = b.total
          /\ connections_per_ip = b.per_ip
    /\ limiter_lock = NoAgent
    /\ lpc = [p \in Agents |-> "idle"]
    /\ larg = [p \in Agents |-> NoIp]
    /\ lres = [p \in Agents |-> "none"]
    /\ lcalls = 0


\* ------------------------------------------------------------------------
\* SpecServer: the accept loop and the connection tasks
\* ------------------------------------------------------------------------
MainSteps(addrs) ==
    \/ \E c \in Conns : \E ip \in addrs : MainAccept(c, ip)
    \/ MainAdmit

BreakReasons == {"timeout", "end", "close", "error"}

ConnInputs(c) ==
    \/ HandshakeFail(c)
    \/ HandshakeOk(c)
    \/ \E reason \in BreakReasons : RecvBreak(c, reason)
    \/ RecvIgnored(c)
    \/ RecvMalformed(c)
    \/ RecvPing(c)
    \/ \E node_id \in Ids : RecvReportPeerLeft(c, node_id)
    \/ RecvLeave(c)
    \/ \E ticket \in Tickets : \E node_id \in Ids : RecvRegister(c, ticket, node_id)

ConnSteps(c) ==
    \/ HandshakeFailReturn(c)
    \/ CleanupRelease(c)
    \/ CleanupAbort(c)
    \/ RegisterAfterLeave(c)
    \/ RegisterSendPeers(c)
    \/ LeaveDone(c)
    \/ ReportDone(c)

InitServer == ServerLimiterInit(ServerBackgrounds) /\ RoomInit /\ ServerInit /\ SidecarInit
NextServer ==
    \/ MainSteps(IPs)
    \/ \E c \in Conns : ConnInputs(c) \/ ConnSteps(c)
    \/ RoomSteps
    \/ LimiterSteps
SpecServer == InitServer /\ [][NextServer]_vars

\* ------------------------------------------------------------------------
\* SpecServerFair: the same tasks under the scheduling of the runtime.  Every
\* task that can take a step is eventually polled; the tokio Mutex hands the
\* lock to its waiters in FIFO order, so a waiter is not passed over forever.
\* What the peers and the network do (frames, closes, timeouts, handshakes)
\* is under no obligation.
\* ------------------------------------------------------------------------
TaskSteps(p) ==
    \/ TryConnectAccept(p)
    \/ RegisterCheck(p)
    \/ LeaveIndex(p)
    \/ LeaveRooms(p)
    \/ RegisterRecord(p)
    \/ RegisterJoin(p)
    \/ (p = MainTask /\ MainAdmit)
    \/ (p \in Conns /\ ConnSteps(p))

LockSteps(p) == TryConnectReject(p) \/ TryConnectPass(p) \/ DisconnectBody(p)

\* one slot is left when main() starts
FairBackgrounds == {[total |-> MAX_TOTAL_CONNECTIONS - 1, per_ip |-> EmptyMap]}

InitServerFair == ServerLimiterInit(FairBackgrounds) /\ RoomInit /\ ServerInit /\ SidecarInit
NextServerFair ==
    \/ MainSteps(IPs)
    \/ \E c \in Conns : ConnInputs(c) \/ ConnSteps(c)
    \/ RoomSteps
    \/ LimiterSteps
SpecServerFair ==
    /\ InitServerFair
    /\ [][NextServerFair]_vars
    /\ \A p \in Agents : WF_vars(TaskSteps(p)) /\ SF_vars(LockSteps(p))

\* ------------------------------------------------------------------------
\* nodemaster_client.rs: NodeMasterClient (the sidecar's discovery client)
\* ------------------------------------------------------------------------
\* the node id of this sidecar, passed by its owner to register()
MyNodeId == "a"

\* NodeMasterEvent
NMEvent(type, node_id, node_ids, message) ==
    [type |-> type, node_id |-> node_id, node_ids |-> node_ids, message |-> message]
EvPeerList(node_ids) == NMEvent("PeerList", NoNode, node_ids, "")
EvPeerJoined(node_id) == NMEvent("PeerJoined", node_id, {}, "")
EvPeerLeft(node_id) == NMEvent("PeerLeft", node_id, {}, "")
EvError(message) == NMEvent("Error", NoNode, {}, message)
EvDisconnected == NMEvent("Disconnected", NoNode, {}, "")
EvReconnecting == NMEvent("Reconnecting", NoNode, {}, "")
EvReconnected == NMEvent("Reconnected", NoNode, {}, "")
\* the event of the retry ceiling, and the message of a server Error frame
EvMaxAttempts == EvError("Max reconnect attempts reached")
ServerErrorText == "Invalid message format"

\* process_messages: the event made of a frame of the server (Pong makes none)
event_of(msg) ==
    CASE msg.type = "peers" -> EvPeerList(msg.node_ids)
      [] msg.type = "peer_joined" -> EvPeerJoined(msg.node_id)
      [] msg.type = "peer_left" -> EvPeerLeft(msg.node_id)
      [] OTHER -> EvError(ServerErrorText)

\* the ceiling reached one attempt late
retry_exceeded_Late(att) == att > MAX_RECONNECT_ATTEMPTS + 1

\* the ceiling reached one attempt early
retry_exceeded_AtCeiling(att) == att >= MAX_RECONNECT_ATTEMPTS

\* if attempt > MAX_RECONNECT_ATTEMPTS
retry_exceeded(att) == att > MAX_RECONNECT_ATTEMPTS

\* the doubling without its ceiling
next_backoff_Uncapped(ms) == ms * 2

\* backoff_ms = (backoff_ms * 2).min(MAX_BACKOFF_MS)
next_backoff(ms) == IF ms * 2 < MAX_BACKOFF_MS THEN ms * 2 ELSE MAX_BACKOFF_MS

\* if attempt > 0, read after `attempt = 0' has been executed
notify_reconnected(att) == att > 0

\* a deliberate leave retried like a lost connection
reconnects_after_Always(reason) == TRUE

\* match disconnect_reason: Leave breaks the loop, the others fall through
reconnects_after(reason) == reason # "Leave"

\* the memo keeps the first registration
registration_after_KeepFirst(reg, cmd) ==
    IF cmd.type = "register" /\ reg = NoRegistration
    THEN [ticket |-> cmd.ticket, node_id |-> cmd.node_id]
    ELSE reg

\* process_messages: save registration info for auto-reconnect
registration_after(reg, cmd) ==
    IF cmd.type = "register"
    THEN [ticket |-> cmd.ticket, node_id |-> cmd.node_id]
    ELSE reg

\* the frames the connection starts with: the memo replayed, if there is one
replay_frames(reg, up) ==
    IF reg.ticket # NoTicket /\ reg.node_id # NoNode /\ up
    THEN <<NMCmd("register", reg.ticket, reg.node_id)>>
    ELSE <<>>

\* cmd_rx.recv() takes the oldest command
rest_after_recv(q) == Tail(q)

\* the command channel emptied whenever the connection is lost
RetryOrGiveUp_DropsCommands(att, evs, q) ==
    /\ attempt' = att + 1
    /\ ws_alive' = FALSE
    /\ cmd_rx' = <<>>
    /\ IF retry_exceeded(att + 1)
       THEN /\ nm_events' = Append(evs, EvMaxAttempts)
            /\ nm_pc' = "closed"
            /\ UNCHANGED nm_sleeps
       ELSE /\ nm_events' = Append(evs, EvReconnecting)
            /\ nm_pc' = "sleep"
            /\ nm_sleeps' = Append(nm_sleeps, backoff_ms)

\* connection_loop, after a failed connect or a lost connection:
\* attempt += 1; over the ceiling: Error event and break; else Reconnecting
\* event and sleep(backoff_ms).  `att' and `evs' are attempt and the events sent
\* when the tail is entered, `q' the command channel.
RetryOrGiveUp(att, evs, q) ==
    /\ attempt' = att + 1
    /\ ws_alive' = FALSE
    /\ IF retry_exceeded(att + 1)
       THEN /\ nm_events' = Append(evs, EvMaxAttempts)
            /\ nm_pc' = "closed"
            /\ cmd_rx' = <<>>
            /\ UNCHANGED nm_sleeps
       ELSE /\ nm_events' = Append(evs, EvReconnecting)
            /\ nm_pc' = "sleep"
            /\ nm_sleeps' = Append(nm_sleeps, backoff_ms)
            /\ cmd_rx' = q

\* connect_async(&url).await returns Err
NmConnectFail ==
    /\ nm_pc = "connect"
    /\ nm_consec' = nm_consec + 1
    /\ RetryOrGiveUp(attempt, nm_events, cmd_rx)
    /\ UNCHANGED <<backoff_ms, registration, event_rx_open, ws_sent, nm_ok,
                   nm_issued, nm_handled, nm_inputs>>
    /\ UNCHANGED notClientVars

\* connect_async(&url).await returns Ok: reset, Reconnected if attempt > 0,
\* replay of the memo, then process_messages.  `up': the transport is still up
\* when the replayed frame is sent.
NmConnectOk(up) ==
    /\ nm_pc = "connect"
    /\ nm_ok < MaxClientOk
    /\ nm_ok' = nm_ok + 1
    /\ nm_consec' = 0
    /\ nm_sleeps' = <<>>
    /\ backoff_ms' = INITIAL_BACKOFF_MS
    /\ attempt' = 0
    /\ nm_events' = IF notify_reconnected(0) THEN <<EvReconnected>> ELSE <<>>
    /\ ws_alive' = up
    /\ ws_sent' = replay_frames(registration, up)
    /\ nm_pc' = "process"
    /\ UNCHANGED <<registration, cmd_rx, event_rx_open, nm_issued, nm_handled,
                   nm_inputs>>
    /\ UNCHANGED notClientVars

\* tokio::time::sleep(backoff_ms) is over: the backoff doubles, next connect
NmSleepDone ==
    /\ nm_pc = "sleep"
    /\ backoff_ms' = next_backoff(backoff_ms)
    /\ nm_pc' = "connect"
    /\ UNCHANGED <<attempt, registration, cmd_rx, event_rx_open, ws_alive, ws_sent,
                   nm_events, nm_ok, nm_consec, nm_sleeps, nm_issued,
                   nm_handled, nm_inputs>>
    /\ UNCHANGED notClientVars

\* process_messages, Some(cmd) = cmd_rx.recv(): the memo is saved; Leave returns
\* DisconnectReason::Leave (the future of its send is built and dropped, never
\* awaited); another command is sent, and a failed send returns Error.
NmRecvCommand ==
    /\ nm_pc = "process"
    /\ cmd_rx # <<>>
    /\ LET cmd == Head(cmd_rx)
           q == rest_after_recv(cmd_rx)
       IN /\ nm_handled' = Append(nm_handled, cmd)
          /\ registration' = registration_after(registration, cmd)
          /\ IF cmd.type = "leave"
             THEN IF reconnects_after("Leave")
                  THEN /\ RetryOrGiveUp(attempt, nm_events, q)
                       /\ UNCHANGED ws_sent
                  ELSE /\ nm_events' = Append(nm_events, EvDisconnected)
                       /\ nm_pc' = "closed"
                       /\ cmd_rx' = <<>>
                       /\ ws_alive' = FALSE
                       /\ UNCHANGED <<attempt, ws_sent, nm_sleeps>>
             ELSE IF ws_alive
                  THEN /\ ws_sent' = Append(ws_sent, cmd)
                       /\ cmd_rx' = q
                       /\ UNCHANGED <<nm_pc, attempt, ws_alive, nm_events, nm_sleeps>>
                  ELSE /\ RetryOrGiveUp(attempt, nm_events, q)
                       /\ UNCHANGED ws_sent
    /\ UNCHANGED <<backoff_ms, event_rx_open, nm_ok, nm_consec,
                   nm_issued, nm_inputs>>
    /\ UNCHANGED notClientVars

\* process_messages, ws_receiver.next() yields a text frame of the server: Pong
\* is skipped, the others become events; a failed event_tx.send returns Error
NmRecvFrame(msg) ==
    /\ nm_pc = "process"
    /\ ws_alive
    /\ nm_inputs < MaxClientFrames
    /\ nm_inputs' = nm_inputs + 1
    /\ IF msg.type = "pong"
       THEN UNCHANGED <<nm_pc, attempt, ws_alive, nm_events, nm_sleeps, cmd_rx>>
       ELSE IF event_rx_open
            THEN /\ nm_events' = Append(nm_events, event_of(msg))
                 /\ UNCHANGED <<nm_pc, attempt, ws_alive, nm_sleeps, cmd_rx>>
            ELSE RetryOrGiveUp(attempt, Append(nm_events, event_of(msg)), cmd_rx)
    /\ UNCHANGED <<backoff_ms, registration, event_rx_open, ws_sent, nm_ok, nm_consec, nm_issued, nm_handled>>
    /\ UNCHANGED notClientVars

\* process_messages, ws_receiver.next() yields Close, Err or None: the loop
\* falls through to the retry
NmRecvEnd ==
    /\ nm_pc = "process"
    /\ ~ws_alive
    /\ RetryOrGiveUp(attempt, nm_events, cmd_rx)
    /\ UNCHANGED <<backoff_ms, registration, event_rx_open, ws_sent, nm_ok, nm_consec, nm_issued, nm_handled, nm_inputs>>
    /\ UNCHANGED notClientVars

\* the server closes the connection, or the transport breaks
TransportDown ==
    /\ nm_pc = "process"
    /\ ws_alive
    /\ ws_alive' = FALSE
    /\ UNCHANGED <<nm_pc, backoff_ms, attempt, registration, cmd_rx, event_rx_open,
                   ws_sent, nm_events, nm_ok, nm_consec, nm_sleeps,
                   nm_issued, nm_handled, nm_inputs>>
    /\ UNCHANGED notClientVars

\* NodeMasterClient::register / leave: self.tx.send(cmd), which fails, and is
\* ignored, once the loop has returned and dropped cmd_rx
OwnerCommand(cmd) ==
    /\ Len(nm_issued) < MaxClientCmds
    /\ nm_issued' = Append(nm_issued, cmd)
    /\ cmd_rx' = IF nm_pc = "closed" THEN cmd_rx ELSE Append(cmd_rx, cmd)
    /\ UNCHANGED <<nm_pc, backoff_ms, attempt, registration, event_rx_open, ws_alive,
                   ws_sent, nm_events, nm_ok, nm_consec, nm_sleeps,
                   nm_handled, nm_inputs>>
    /\ UNCHANGED notClientVars

\* the owner drops (or aborts the task that holds) the receiver of the events;
\* the loop can tell only while it is in process_messages
OwnerDropsEvents ==
    /\ event_rx_open
    /\ nm_pc = "process"
    /\ event_rx_open' = FALSE
    /\ UNCHANGED <<nm_pc, backoff_ms, attempt, registration, cmd_rx, ws_alive,
                   ws_sent, nm_events, nm_ok, nm_consec, nm_sleeps,
                   nm_issued, nm_handled, nm_inputs>>
    /\ UNCHANGED notClientVars

\* ------------------------------------------------------------------------
\* SpecClient: one NodeMasterClient, its owner, and the server and transport
\* ------------------------------------------------------------------------
\* the commands of the owner, and the frames of the server
OwnerCmds == {NMCmd("register", t, MyNodeId) : t \in Tickets} \cup
             {NMCmd("leave", NoTicket, NoNode)}
ServerFrames == {PeersMsg({}), PeersMsg({"b"}), PeerJoined("b"), PeerLeft("b"),
                 Pong, ErrorMsg}

InitClient == LimiterInit /\ background = 0 /\ RoomInit /\ ServerInit /\ SidecarInit
NextClient ==
    \/ NmConnectFail
    \/ \E up \in BOOLEAN : NmConnectOk(up)
    \/ NmSleepDone
    \/ NmRecvCommand
    \/ \E msg \in ServerFrames : NmRecvFrame(msg)
    \/ NmRecvEnd
    \/ TransportDown
    \/ \E cmd \in OwnerCmds : OwnerCommand(cmd)
    \/ OwnerDropsEvents
SpecClient == InitClient /\ [][NextClient]_vars

\* SpecClientFair: the loop is polled whenever it can go on: a connect_async
\* call and a sleep come to an end, an ended stream is noticed, and select!
\* picks its ready branches at random, so a waiting command is not passed over
\* forever.  What the owner and the transport do is under no obligation; the
\* server sends no frame here, it only lets connections fail or end.
NextClientFair ==
    \/ NmConnectFail
    \/ \E up \in BOOLEAN : NmConnectOk(up)
    \/ NmSleepDone
    \/ NmRecvCommand
    \/ NmRecvEnd
    \/ TransportDown
    \/ \E cmd \in OwnerCmds : OwnerCommand(cmd)
SpecClientFair ==
    /\ InitClient
    /\ [][NextClientFair]_vars
    /\ WF_vars(NmConnectFail \/ \E up \in BOOLEAN : NmConnectOk(up))
    /\ WF_vars(NmSleepDone)
    /\ WF_vars(NmRecvEnd)
    /\ SF_vars(NmRecvCommand)

\* ------------------------------------------------------------------------
\* sidecar/server.rs: tickets.  A String is the sequence of its characters.
\* ------------------------------------------------------------------------
HexChars == <<"0", "1", "2", "3", "4", "5", "6", "7", "8", "9",
              "a", "b", "c", "d", "e", "f">>
UpperHexChars == <<"0", "1", "2", "3", "4", "5", "6", "7", "8", "9",
                   "A", "B", "C", "D", "E", "F">>
IsHexChar(ch) == \E i \in 1..16 : HexChars[i] = ch \/ UpperHexChars[i] = ch
HexVal(ch) == (CHOOSE i \in 1..16 : HexChars[i] = ch \/ UpperHexChars[i] = ch) - 1

\* hex::encode: two lower-case digits per byte
hex_encode(bytes) ==
    [i \in 1..(2 * Len(bytes)) |->
        IF i % 2 = 1 THEN HexChars[(bytes[(i + 1) \div 2] \div 16) + 1]
        ELSE HexChars[(bytes[i \div 2] % 16) + 1]]

\* hex::decode(..).ok(): fails on an odd length and on a character that is no
\* hex digit
hex_decode(text) ==
    IF Len(text) % 2 = 0 /\ \A i \in 1..Len(text) : IsHexChar(text[i])
    THEN [ok |-> TRUE,
          bytes |-> [i \in 1..(Len(text) \div 2) |->
                        16 * HexVal(text[2 * i - 1]) + HexVal(text[2 * i])]]
    ELSE [ok |-> FALSE, bytes |-> <<>>]

\* hex::decode(..).ok()?.try_into().ok()? into [u8; 32]
\* the decoded bytes taken whatever their number
topic_bytes_of_AnyLength(text) == hex_decode(text)

\* hex::decode(topic_hex).ok()?.try_into().ok()?: 32 bytes or nothing
topic_bytes_of(text) ==
    LET d == hex_decode(text)
    IN IF d.ok /\ Len(d.bytes) = TOPIC_BYTES THEN d ELSE [ok |-> FALSE, bytes |-> <<>>]

\* str::split_once('|'): the index of the first '|', 0 if there is none
FirstBar(text) ==
    IF \E i \in 1..Len(text) : text[i] = "|"
    THEN CHOOSE i \in 1..Len(text) :
            text[i] = "|" /\ \A j \in 1..(i - 1) : text[j] # "|"
    ELSE 0

\* EndpointId::from_str(..).ok() of iroh: the texts that are endpoint ids are
\* given as a set; None is the empty text
NoEndpoint == <<>>
EndpointId_from_str(text) == IF text \in EndpointTexts THEN text ELSE NoEndpoint

\* decode_ticket: None, or Some((topic_bytes, Option<EndpointId>))
NoDecoded == [some |-> FALSE, topic_bytes |-> <<>>, node_id |-> NoEndpoint]
decode_ticket(ticket) ==
    LET bar == FirstBar(ticket)
        topic_hex == IF bar = 0 THEN ticket ELSE SubSeq(ticket, 1, bar - 1)
        node_id_str == IF bar = 0 THEN <<>> ELSE SubSeq(ticket, bar + 1, Len(ticket))
        t == topic_bytes_of(topic_hex)
    IN IF ~t.ok THEN NoDecoded
       ELSE [some |-> TRUE, topic_bytes |-> t.bytes,
             node_id |-> IF bar = 0 THEN NoEndpoint
                         ELSE EndpointId_from_str(node_id_str)]

\* encode_ticket: format!("{}|{}", hex::encode(topic_bytes), node_id)
encode_ticket(topic_bytes, node_id) == hex_encode(topic_bytes) \o <<"|">> \o node_id

\* ------------------------------------------------------------------------
\* sidecar/server.rs: handle_connection, the bridge session
\* ------------------------------------------------------------------------
\* protocol.rs (sidecar): ServerMessage
BMsg(event, ticket, peer_id, skin_id, message) ==
    [event |-> event, ticket |-> ticket, peer_id |-> peer_id, skin_id |-> skin_id,
     message |-> message]
TicketCreated(ticket) == BMsg("TicketCreated", ticket, <<>>, 0, "")
NodeIdMsg(node_id) == BMsg("NodeId", <<>>, node_id, 0, "")
JoinedRoom(ticket) == BMsg("JoinedRoom", ticket, <<>>, 0, "")
InvalidTicket(ticket) ==
    BMsg("InvalidTicket", ticket, <<>>, 0,
         "Invalid ticket format. Expected: topic_hex|node_id")
BPeerJoined(peer_id) == BMsg("PeerJoined", <<>>, peer_id, 0, "")
BPeerLeft(peer_id) == BMsg("PeerLeft", <<>>, peer_id, 0, "")
RemoteSkinUpdate(peer_id, skin_id) == BMsg("RemoteSkinUpdate", <<>>, peer_id, skin_id, "")
SyncConfirmed(peer_id) == BMsg("SyncConfirmed", <<>>, peer_id, 0, "")
\* an error written to the log of the client only
BError_AsLog(message) == BMsg("Log", <<>>, <<>>, 0, message)

\* ServerMessage::Error { message }
BError(message) == BMsg("Error", <<>>, <<>>, 0, message)
BLog(message) == BMsg("Log", <<>>, <<>>, 0, message)
LeftRoom == BMsg("LeftRoom", <<>>, <<>>, 0, "")
NotInRoomText == "Not in any room. Call JoinTicket first."

\* protocol.rs (sidecar): GossipMessage, as broadcast on a topic by a task (0 is
\* the session task itself)
Broadcast(topic, by, type, peer_id, skin_id) ==
    [topic |-> topic, by |-> by, type |-> type, peer_id |-> peer_id, skin_id |-> skin_id]

\* to_client_tx.send(msg) by the session task (0) or by a spawned task
SendToClient(q, by, msg) == Append(q, [by |-> by, msg |-> msg])

\* tokio::spawn: the new task gets an id no live task and no handle uses
NewTaskId(ts) ==
    CHOOSE i \in 1..(Cardinality(DOMAIN ts) + 3) :
        /\ i \notin DOMAIN ts \cup {current_receiver_task, nodemaster_event_task}
        /\ \A j \in 1..(i - 1) :
              j \in DOMAIN ts \cup {current_receiver_task, nodemaster_event_task}
TaskOf(kind, topic, client) == [kind |-> kind, topic |-> topic, client |-> client]

\* the previous forwarder left running
abort_Forgotten(ts, handle) == ts

\* if let Some(handle) = <handle>.take() { handle.abort(); }
\* an aborted task is not polled again; aborting an ended task does nothing
abort(ts, handle) == IF handle \in DOMAIN ts THEN MapRemove(ts, handle) ELSE ts

\* rand::random::<[u8; 32]>(): two of its values
TopicOf(byte) == [i \in 1..TOPIC_BYTES |-> byte]
RandomTopics == {TopicOf(17), TopicOf(34)}

\* DefaultHasher of the ticket text, as the 8 bytes of hash.to_le_bytes(); the
\* hash function itself is not modelled, a fixed function of the text stands
\* for it
HashLe(ticket) ==
    [i \in 1..8 |-> (Len(ticket) * 29 + i * 7
                       + (IF ticket # <<>> /\ IsHexChar(ticket[1])
                          THEN HexVal(ticket[1]) ELSE 16)) % 256]
Reversed(seq) == [i \in 1..Len(seq) |-> seq[Len(seq) + 1 - i]]

\* JoinViaNodeMaster: the 32 bytes of a hex ticket, else bytes made of its hash
nm_topic_bytes(ticket) ==
    LET d == hex_decode(ticket)
    IN IF d.ok /\ Len(d.bytes) = TOPIC_BYTES THEN d.bytes
       ELSE HashLe(ticket) \o Reversed(HashLe(ticket))
            \o HashLe(ticket) \o Reversed(HashLe(ticket))

\* the sender tested before a broadcast, taken as always there
has_topic_sender_Always(sender) == TRUE

\* if let Some(sender) = &current_topic_sender
has_topic_sender(sender) == sender # NoTopic

\* the window of messages and the count start anew with each command
BridgeReceive(kind) ==
    /\ bpc = "recv"
    /\ bridge_cmds < MaxBridgeCmds
    /\ bridge_cmds' = bridge_cmds + 1
    /\ bridge_recent' = IF bridge_recent = <<>> THEN <<kind>>
                        ELSE <<bridge_recent[Len(bridge_recent)], kind>>

\* the window's last entry tells whether the command's subscribe succeeded
Subscribed(recent, ok, mark) ==
    IF ok THEN [recent EXCEPT ![Len(recent)] = mark] ELSE recent

\* ClientMessage::CreateTicket, up to gossip.subscribe(topic_id, vec![]).await
BrCreateTicket(topic_bytes) ==
    /\ BridgeReceive("CreateTicket")
    /\ tasks' = abort(tasks, current_receiver_task)
    /\ current_receiver_task' = NoTask
    /\ bcmd' = [action |-> "CreateTicket",
                ticket |-> encode_ticket(topic_bytes, MyEndpointText),
                topic |-> topic_bytes, skin_id |-> 0]
    /\ bpc' = "ct_subscribe"
    /\ to_client' = <<>>
    /\ overlay_out' = <<>>
    /\ UNCHANGED <<current_topic_sender, current_topic, nodemaster_event_task,
                   nodemaster_client, clients, overlay_events>>
    /\ UNCHANGED notBridgeVars

\* CreateTicket, after subscribe: Ok sets the topic and the sender, spawns the
\* forwarder and replies TicketCreated; Err replies Error
BrCreateSubscribed(ok) ==
    /\ bpc = "ct_subscribe"
    /\ bpc' = "recv"
    /\ bcmd' = NoCmd
    /\ bridge_recent' = Subscribed(bridge_recent, ok, "Created")
    /\ IF ok
       THEN LET id == NewTaskId(tasks)
            IN /\ current_topic' = bcmd.topic
               /\ current_topic_sender' = bcmd.topic
               /\ tasks' = MapPut(tasks, id, TaskOf("forwarder", bcmd.topic, NoClient))
               /\ current_receiver_task' = id
               /\ to_client' = SendToClient(to_client, 0, TicketCreated(bcmd.ticket))
       ELSE /\ to_client' = SendToClient(to_client, 0, BError("subscribe failed"))
            /\ UNCHANGED <<current_topic, current_topic_sender, tasks,
                           current_receiver_task>>
    /\ UNCHANGED <<nodemaster_event_task, nodemaster_client, clients, overlay_out,
                   bridge_cmds, overlay_events>>
    /\ UNCHANGED notBridgeVars

\* ClientMessage::GetNodeId
BrGetNodeId ==
    /\ BridgeReceive("GetNodeId")
    /\ to_client' = <<[by |-> 0, msg |-> NodeIdMsg(MyEndpointText)]>>
    /\ overlay_out' = <<>>
    /\ UNCHANGED <<bpc, bcmd, current_topic_sender, current_topic,
                   current_receiver_task, nodemaster_event_task, nodemaster_client,
                   tasks, clients, overlay_events>>
    /\ UNCHANGED notBridgeVars

\* ClientMessage::JoinTicket(ticket): a ticket that does not decode is answered
\* InvalidTicket; else the forwarder is aborted and the topic subscribed
BrJoinTicket(ticket) ==
    /\ BridgeReceive("JoinTicket")
    /\ overlay_out' = <<>>
    /\ LET d == decode_ticket(ticket)
       IN IF d.some
          THEN /\ tasks' = abort(tasks, current_receiver_task)
               /\ current_receiver_task' = NoTask
               /\ bcmd' = [action |-> "JoinTicket", ticket |-> ticket,
                           topic |-> d.topic_bytes, skin_id |-> 0]
               /\ bpc' = "jt_subscribe"
               /\ to_client' = <<>>
          ELSE /\ to_client' = <<[by |-> 0, msg |-> InvalidTicket(ticket)]>>
               /\ UNCHANGED <<tasks, current_receiver_task, bcmd, bpc>>
    /\ UNCHANGED <<current_topic_sender, current_topic, nodemaster_event_task,
                   nodemaster_client, clients, overlay_events>>
    /\ UNCHANGED notBridgeVars

\* JoinTicket, after subscribe: Ok sets the topic and the sender, replies
\* JoinedRoom and spawns the forwarder; Err replies Error
BrJoinSubscribed(ok) ==
    /\ bpc = "jt_subscribe"
    /\ bpc' = "recv"
    /\ bcmd' = NoCmd
    /\ bridge_recent' = Subscribed(bridge_recent, ok, "Joined")
    /\ IF ok
       THEN LET id == NewTaskId(tasks)
            IN /\ current_topic' = bcmd.topic
               /\ current_topic_sender' = bcmd.topic
               /\ to_client' = SendToClient(to_client, 0, JoinedRoom(bcmd.ticket))
               /\ tasks' = MapPut(tasks, id, TaskOf("forwarder", bcmd.topic, NoClient))
               /\ current_receiver_task' = id
       ELSE /\ to_client' = SendToClient(to_client, 0, BError("subscribe failed"))
            /\ UNCHANGED <<current_topic, current_topic_sender, tasks,
                           current_receiver_task>>
    /\ UNCHANGED <<nodemaster_event_task, nodemaster_client, clients, overlay_out,
                   bridge_cmds, overlay_events>>
    /\ UNCHANGED notBridgeVars

\* the client no longer held by the session: its command sender is dropped
Dropped(cs, c) == IF c = NoClient THEN cs ELSE [cs EXCEPT ![c].held = FALSE]

\* ClientMessage::JoinViaNodeMaster, up to event_rx.recv().await: both tasks
\* are aborted, NodeMasterClient::connect (which always returns Ok) makes a new
\* client, register is called on it and it replaces the previous client
BrJoinViaNodeMaster(ticket) ==
    /\ BridgeReceive("JoinViaNodeMaster")
    /\ tasks' = abort(abort(tasks, current_receiver_task), nodemaster_event_task)
    /\ current_receiver_task' = NoTask
    /\ nodemaster_event_task' = NoTask
    /\ clients' = Append(Dropped(clients, nodemaster_client),
                         [cmds |-> <<NMCmd("register", ticket, MyEndpointText)>>,
                          held |-> TRUE])
    /\ nodemaster_client' = Len(clients) + 1
    /\ bcmd' = [action |-> "JoinViaNodeMaster", ticket |-> ticket,
                topic |-> nm_topic_bytes(ticket), skin_id |-> 0]
    /\ bpc' = "nm_first_event"
    /\ to_client' = <<>>
    /\ overlay_out' = <<>>
    /\ UNCHANGED <<current_topic_sender, current_topic, overlay_events>>
    /\ UNCHANGED notBridgeVars

\* JoinViaNodeMaster: event_rx.recv().await yields the first event of the
\* client (a PeerList gives the bootstrap peers, anything else gives none),
\* then gossip.subscribe(topic_id, bootstrap_peers).await
BrFirstEvent ==
    /\ bpc = "nm_first_event"
    /\ bpc' = "nm_subscribe"
    /\ UNCHANGED <<bcmd, current_topic_sender, current_topic, current_receiver_task,
                   nodemaster_event_task, nodemaster_client, tasks, clients,
                   to_client, overlay_out, bridge_cmds, bridge_recent,
                   overlay_events>>
    /\ UNCHANGED notBridgeVars

\* JoinViaNodeMaster, after subscribe: Ok sets the topic and the sender, replies
\* JoinedRoom and spawns the forwarder and the relay of the client's events;
\* Err replies Error
BrNmSubscribed(ok) ==
    /\ bpc = "nm_subscribe"
    /\ bpc' = "recv"
    /\ bcmd' = NoCmd
    /\ bridge_recent' = Subscribed(bridge_recent, ok, "JoinedViaNodeMaster")
    /\ IF ok
       THEN LET id == NewTaskId(tasks)
                ts == MapPut(tasks, id, TaskOf("forwarder", bcmd.topic, NoClient))
            IN /\ current_topic' = bcmd.topic
               /\ current_topic_sender' = bcmd.topic
               /\ to_client' = SendToClient(to_client, 0, JoinedRoom(bcmd.ticket))
               /\ current_receiver_task' = id
               /\ tasks' = MapPut(ts, NewTaskId(ts),
                                  TaskOf("relay", NoTopic, nodemaster_client))
               /\ nodemaster_event_task' = NewTaskId(ts)
       ELSE /\ to_client' = SendToClient(to_client, 0,
                                         BError("Gossip subscribe failed"))
            /\ UNCHANGED <<current_topic, current_topic_sender, tasks,
                           current_receiver_task, nodemaster_event_task>>
    /\ UNCHANGED <<nodemaster_client, clients, overlay_out, bridge_cmds, overlay_events>>
    /\ UNCHANGED notBridgeVars

\* ClientMessage::UpdateSkin: with a sender the update is broadcast under the
\* node's own id (a failed broadcast is logged to the client), without one the
\* client is told it is in no room
BrUpdateSkin(skin_id, sent) ==
    /\ BridgeReceive("UpdateSkin")
    /\ IF has_topic_sender(current_topic_sender)
       THEN /\ overlay_out' = <<Broadcast(current_topic_sender, 0, "SkinUpdate",
                                          MyEndpointText, skin_id)>>
            /\ to_client' = IF sent THEN <<>>
                            ELSE <<[by |-> 0, msg |-> BLog("Broadcast failed")]>>
       ELSE /\ overlay_out' = <<>>
            /\ to_client' = <<[by |-> 0, msg |-> BError(NotInRoomText)]>>
    /\ UNCHANGED <<bpc, bcmd, current_topic_sender, current_topic,
                   current_receiver_task, nodemaster_event_task, nodemaster_client,
                   tasks, clients, overlay_events>>
    /\ UNCHANGED notBridgeVars

\* the client dropped without the Leave command
Left_Untold(cs, c) == Dropped(cs, c)

\* client.leave() on the client held, which is then dropped
Left(cs, c) ==
    IF c = NoClient THEN cs
    ELSE [cs EXCEPT ![c] = [cmds |-> Append(@.cmds, NMCmd("leave", <<>>, <<>>)),
                            held |-> FALSE]]

\* ClientMessage::LeaveRoom
BrLeaveRoom ==
    /\ BridgeReceive("LeaveRoom")
    /\ clients' = Left(clients, nodemaster_client)
    /\ nodemaster_client' = NoClient
    /\ tasks' = abort(abort(tasks, current_receiver_task), nodemaster_event_task)
    /\ current_receiver_task' = NoTask
    /\ nodemaster_event_task' = NoTask
    /\ current_topic_sender' = NoTopic
    /\ current_topic' = NoTopic
    /\ to_client' = <<[by |-> 0, msg |-> LeftRoom]>>
    /\ overlay_out' = <<>>
    /\ UNCHANGED <<bpc, bcmd, overlay_events>>
    /\ UNCHANGED notBridgeVars

\* a frame that is no text or no ClientMessage is passed over
BrIgnored ==
    /\ BridgeReceive("ignored")
    /\ to_client' = <<>>
    /\ overlay_out' = <<>>
    /\ UNCHANGED <<bpc, bcmd, current_topic_sender, current_topic,
                   current_receiver_task, nodemaster_event_task, nodemaster_client,
                   tasks, clients, overlay_events>>
    /\ UNCHANGED notBridgeVars

\* ws_receiver.next() gives None or Err: the loop breaks, the forwarder is
\* aborted and the locals of handle_connection are dropped
BrClose ==
    /\ bpc = "recv"
    /\ bpc' = "closed"
    /\ tasks' = abort(tasks, current_receiver_task)
    /\ current_receiver_task' = NoTask
    /\ nodemaster_event_task' = NoTask
    /\ clients' = Dropped(clients, nodemaster_client)
    /\ nodemaster_client' = NoClient
    /\ current_topic_sender' = NoTopic
    /\ current_topic' = NoTopic
    /\ UNCHANGED <<bcmd, to_client, overlay_out, bridge_cmds, bridge_recent,
                   overlay_events>>
    /\ UNCHANGED notBridgeVars

\* the events a forwarder takes from its GossipReceiver
OverlayEvents ==
    {"SkinUpdate", "SkinAckMine", "SkinAckOther", "NeighborUp", "NeighborDown", "Other"}

\* the forwarder task, one event of receiver.next().await
FwdEvent(id, ev) ==
    /\ id \in DOMAIN tasks
    /\ tasks[id].kind = "forwarder"
    /\ overlay_events < MaxOverlayEvents
    /\ overlay_events' = overlay_events + 1
    /\ to_client' =
         CASE ev = "SkinUpdate" ->
                SendToClient(to_client, id, RemoteSkinUpdate(PeerEndpointText, 1))
           [] ev = "SkinAckMine" ->
                SendToClient(to_client, id, SyncConfirmed(PeerEndpointText))
           [] ev = "NeighborUp" ->
                SendToClient(to_client, id, BPeerJoined(PeerEndpointText))
           [] ev = "NeighborDown" ->
                SendToClient(to_client, id, BPeerLeft(PeerEndpointText))
           [] OTHER -> to_client
    /\ overlay_out' =
         IF ev = "SkinUpdate"
         THEN Append(overlay_out,
                     Broadcast(tasks[id].topic, id, "SkinAck", PeerEndpointText, 0))
         ELSE overlay_out
    /\ UNCHANGED <<bpc, bcmd, current_topic_sender, current_topic,
                   current_receiver_task, nodemaster_event_task, nodemaster_client,
                   tasks, clients, bridge_cmds, bridge_recent>>
    /\ UNCHANGED notBridgeVars

\* the forwarder task: receiver.next() gives None, the task ends
FwdStreamEnd(id) ==
    /\ id \in DOMAIN tasks
    /\ tasks[id].kind = "forwarder"
    /\ tasks' = MapRemove(tasks, id)
    /\ UNCHANGED <<bpc, bcmd, current_topic_sender, current_topic,
                   current_receiver_task, nodemaster_event_task, nodemaster_client,
                   clients, to_client, overlay_out, bridge_cmds, bridge_recent,
                   overlay_events>>
    /\ UNCHANGED notBridgeVars

\* the events the relay task takes from the client's event channel
RelayEvents == {"PeerLeft", "Disconnected", "Error", "Other"}

\* the relay task, one event of event_rx.recv().await: PeerLeft is passed to
\* the client, Disconnected (or the channel's end) ends the task, Error is
\* written to the log only, and the others are skipped
RelayEvent(id, ev) ==
    /\ id \in DOMAIN tasks
    /\ tasks[id].kind = "relay"
    /\ overlay_events < MaxOverlayEvents
    /\ overlay_events' = overlay_events + 1
    /\ to_client' = IF ev = "PeerLeft"
                    THEN SendToClient(to_client, id, BPeerLeft(PeerEndpointText))
                    ELSE to_client
    /\ tasks' = IF ev = "Disconnected" THEN MapRemove(tasks, id) ELSE tasks
    /\ UNCHANGED <<bpc, bcmd, current_topic_sender, current_topic,
                   current_receiver_task, nodemaster_event_task, nodemaster_client,
                   clients, overlay_out, bridge_cmds, bridge_recent>>
    /\ UNCHANGED notBridgeVars

\* the tickets the local client sends
GoodTicket == encode_ticket(TopicOf(17), PeerEndpointText)
LegacyTicket == hex_encode(TopicOf(34))
ShortTicket == SubSeq(LegacyTicket, 1, 2 * TOPIC_BYTES - 2)
NotHexTicket == <<"r", "o", "o", "m">>
UndecodableTickets == {ShortTicket, NotHexTicket}
BridgeTickets == {GoodTicket, LegacyTicket} \cup UndecodableTickets
DiscoveryTickets == {GoodTicket, LegacyTicket}
SkinIds == {7}
TaskIds == 1..(2 * MaxBridgeCmds)

InitBridge == LimiterInit /\ background = 0 /\ RoomInit /\ ServerInit /\ SidecarInit

NextBridge ==
    \/ \E topic_bytes \in RandomTopics : BrCreateTicket(topic_bytes)
    \/ \E ok \in BOOLEAN : BrCreateSubscribed(ok)
    \/ BrGetNodeId
    \/ \E ticket \in BridgeTickets : BrJoinTicket(ticket)
    \/ \E ok \in BOOLEAN : BrJoinSubscribed(ok)
    \/ \E ticket \in DiscoveryTickets : BrJoinViaNodeMaster(ticket)
    \/ BrFirstEvent
    \/ \E ok \in BOOLEAN : BrNmSubscribed(ok)
    \/ \E skin_id \in SkinIds, sent \in BOOLEAN : BrUpdateSkin(skin_id, sent)
    \/ BrLeaveRoom
    \/ BrIgnored
    \/ BrClose
    \/ \E id \in TaskIds, ev \in OverlayEvents : FwdEvent(id, ev)
    \/ \E id \in TaskIds : FwdStreamEnd(id)
    \/ \E id \in TaskIds, ev \in RelayEvents : RelayEvent(id, ev)

SpecBridge == InitBridge /\ [][NextBridge]_vars

\* ------------------------------------------------------------------------
\* sidecar/server.rs: the forwarder tasks of two sidecars on one overlay
\* ------------------------------------------------------------------------
\* protocol.rs (sidecar): GossipMessage
GSkinUpdate(peer_id, skin_id) ==
    [type |-> "SkinUpdate", peer_id |-> peer_id, skin_id |-> skin_id]
GSkinAck(target_peer_id) ==
    [type |-> "SkinAck", peer_id |-> target_peer_id, skin_id |-> 0]

\* iroh_gossip::api::Event
Received(content, delivered_from) ==
    [event |-> "Received", content |-> content, peer |-> delivered_from]
NeighborUp(peer_id) == [event |-> "NeighborUp", content |-> GSkinAck(<<>>), peer |-> peer_id]
NeighborDown(peer_id) == [event |-> "NeighborDown", content |-> GSkinAck(<<>>), peer |-> peer_id]

\* an overlay that hands a broadcast to its sender as well
Deliver_ToSenderToo(delivered, room, from, content) ==
    [n \in GNodes |-> IF room[n]
                      THEN Append(delivered[n], Received(content, from))
                      ELSE delivered[n]]

\* the overlay hands a broadcast of `from' to every other node that holds a
\* subscription; with two nodes the sender is also the neighbour it comes from
Deliver(delivered, room, from, content) ==
    [n \in GNodes |-> IF n # from /\ room[n]
                      THEN Append(delivered[n], Received(content, from))
                      ELSE delivered[n]]

\* the acknowledgement addressed to the receiver itself
ack_of_Self(peer_id, me) == GSkinAck(me)

\* GossipMessage::SkinAck { target_peer_id: peer_id }
ack_of(peer_id, me) == GSkinAck(peer_id)

\* every acknowledgement taken for one's own
ack_is_mine_Always(target_peer_id, me) == TRUE

\* if target_peer_id == my_node_id_clone
ack_is_mine(target_peer_id, me) == target_peer_id = me

\* a neighbour that went down reported as one that came up
neighbor_message_AlwaysJoined(ev) == BPeerJoined(ev.peer)

\* NeighborUp(peer_id) => PeerJoined, NeighborDown(peer_id) => PeerLeft
neighbor_message(ev) ==
    IF ev.event = "NeighborUp" THEN BPeerJoined(ev.peer) ELSE BPeerLeft(ev.peer)

\* neighbour events delivered and UpdateSkin commands handled so far
NeighborEventsOf(n) ==
    Cardinality({i \in DOMAIN g_delivered[n] : g_delivered[n][i].event # "Received"})
GNeighborEvents == NeighborEventsOf(MyEndpointText) + NeighborEventsOf(PeerEndpointText)
UpdatesOf(n) ==
    Cardinality({i \in DOMAIN g_bcast[n] : g_bcast[n][i].type = "SkinUpdate"})
GUpdates == UpdatesOf(MyEndpointText) + UpdatesOf(PeerEndpointText)

\* CreateTicket answered by TicketCreated: the node subscribes to a new topic
\* and spawns its forwarder (89-196, the Ok branch)
GoCreateTicket(n) ==
    /\ g_ticket = <<>>
    /\ ~g_room[n]
    /\ g_ticket' = encode_ticket(TopicOf(17), n)
    /\ g_room' = [g_room EXCEPT ![n] = TRUE]
    /\ g_fpc' = [g_fpc EXCEPT ![n] = "next"]
    /\ g_out' = [g_out EXCEPT ![n] = Append(@, TicketCreated(g_ticket'))]
    /\ UNCHANGED <<g_ack, g_delivered, g_taken, g_bcast>>
    /\ UNCHANGED notGossipVars

\* JoinTicket(T) answered by JoinedRoom: the node subscribes to the topic of
\* the ticket and spawns its forwarder (212-339, the Ok branch)
GoJoinTicket(n) ==
    /\ g_ticket # <<>>
    /\ ~g_room[n]
    /\ g_fpc[n] = "none"
    /\ g_out[n] = <<>>
    /\ decode_ticket(g_ticket).some
    /\ g_room' = [g_room EXCEPT ![n] = TRUE]
    /\ g_fpc' = [g_fpc EXCEPT ![n] = "next"]
    /\ g_out' = [g_out EXCEPT ![n] = Append(@, JoinedRoom(g_ticket))]
    /\ UNCHANGED <<g_ticket, g_ack, g_delivered, g_taken, g_bcast>>
    /\ UNCHANGED notGossipVars

\* UpdateSkin in a room: SkinUpdate { peer_id: my_node_id, .. } is broadcast
GoUpdateSkin(n, skin_id) ==
    /\ g_room[n]
    /\ GUpdates < MaxUpdates
    /\ g_bcast' = [g_bcast EXCEPT ![n] = Append(@, GSkinUpdate(n, skin_id))]
    /\ g_delivered' = Deliver(g_delivered, g_room, n, GSkinUpdate(n, skin_id))
    /\ UNCHANGED <<g_ticket, g_room, g_fpc, g_ack, g_taken, g_out>>
    /\ UNCHANGED notGossipVars

\* the overlay reports a neighbour coming up or going down
GoNeighbor(n, ev) ==
    /\ g_room[n]
    /\ ev.peer # n
    /\ GNeighborEvents < MaxNeighborEvents
    /\ g_delivered' = [g_delivered EXCEPT ![n] = Append(@, ev)]
    /\ UNCHANGED <<g_ticket, g_room, g_fpc, g_ack, g_taken, g_out, g_bcast>>
    /\ UNCHANGED notGossipVars

\* the forwarder: stream.next().await gives the next event, which is handled
\* up to the next await that can wait (114-187)
GoFwdTake(n) ==
    /\ g_fpc[n] = "next"
    /\ g_taken[n] < Len(g_delivered[n])
    /\ g_taken' = [g_taken EXCEPT ![n] = @ + 1]
    /\ LET ev == g_delivered[n][g_taken[n] + 1]
       IN CASE ev.event = "Received" /\ ev.content.type = "SkinUpdate" ->
                 /\ g_out' = [g_out EXCEPT ![n] =
                       Append(@, RemoteSkinUpdate(ev.content.peer_id,
                                                  ev.content.skin_id))]
                 /\ g_fpc' = [g_fpc EXCEPT ![n] = "ack"]
                 /\ g_ack' = [g_ack EXCEPT ![n] = ev.content.peer_id]
            [] ev.event = "Received" /\ ev.content.type = "SkinAck" ->
                 /\ g_out' = [g_out EXCEPT ![n] =
                       IF ack_is_mine(ev.content.peer_id, n)
                       THEN Append(@, SyncConfirmed(ev.peer)) ELSE @]
                 /\ UNCHANGED <<g_fpc, g_ack>>
            [] OTHER ->
                 /\ g_out' = [g_out EXCEPT ![n] = Append(@, neighbor_message(ev))]
                 /\ UNCHANGED <<g_fpc, g_ack>>
    /\ UNCHANGED <<g_ticket, g_room, g_delivered, g_bcast>>
    /\ UNCHANGED notGossipVars

\* the forwarder: sender_clone.broadcast(SkinAck { target_peer_id }).await
GoFwdAck(n) ==
    /\ g_fpc[n] = "ack"
    /\ g_fpc' = [g_fpc EXCEPT ![n] = "next"]
    /\ g_ack' = [g_ack EXCEPT ![n] = <<>>]
    /\ g_bcast' = [g_bcast EXCEPT ![n] = Append(@, ack_of(g_ack[n], n))]
    /\ g_delivered' = Deliver(g_delivered, g_room, n, ack_of(g_ack[n], n))
    /\ UNCHANGED <<g_ticket, g_room, g_taken, g_out>>
    /\ UNCHANGED notGossipVars

\* LeaveRoom: the forwarder is aborted wherever it stands, the sender is
\* dropped and LeftRoom is sent (604-626)
GoLeaveRoom(n) ==
    /\ g_room[n]
    /\ g_room' = [g_room EXCEPT ![n] = FALSE]
    /\ g_fpc' = [g_fpc EXCEPT ![n] = "aborted"]
    /\ g_out' = [g_out EXCEPT ![n] = Append(@, LeftRoom)]
    /\ UNCHANGED <<g_ticket, g_ack, g_delivered, g_taken, g_bcast>>
    /\ UNCHANGED notGossipVars

\* a third session of the room, which is no node of the model
ThirdEndpointText == <<"n", "3">>
RoomNodes == GNodes \cup {ThirdEndpointText}

\* acknowledgements delivered so far
AcksOf(n) ==
    Cardinality({i \in DOMAIN g_delivered[n] :
                    /\ g_delivered[n][i].event = "Received"
                    /\ g_delivered[n][i].content.type = "SkinAck"})
GAcks == AcksOf(MyEndpointText) + AcksOf(PeerEndpointText)

\* the overlay hands n the acknowledgement some session of the room broadcast
\* for an update of `target', as Event::Received with delivered_from = `from'
GoOverlayAck(n, target, from) ==
    /\ g_room[n]
    /\ from # n
    /\ GAcks < MaxAcks
    /\ g_delivered' = [g_delivered EXCEPT ![n] =
                          Append(@, Received(GSkinAck(target), from))]
    /\ UNCHANGED <<g_ticket, g_room, g_fpc, g_ack, g_taken, g_out, g_bcast>>
    /\ UNCHANGED notGossipVars

GSkinIds == {7, 8}

InitGossip == LimiterInit /\ background = 0 /\ RoomInit /\ ServerInit /\ SidecarInit

\* a spawned forwarder is polled again while it can make a step
ForwardersRun == \A n \in GNodes : WF_vars(GoFwdTake(n)) /\ WF_vars(GoFwdAck(n))

\* the two sessions exchanging updates
NextUpdates ==
    \/ \E n \in GNodes : GoCreateTicket(n)
    \/ \E n \in GNodes : GoJoinTicket(n)
    \/ \E n \in GNodes, skin_id \in GSkinIds : GoUpdateSkin(n, skin_id)
    \/ \E n \in GNodes : GoFwdTake(n)
    \/ \E n \in GNodes : GoFwdAck(n)
    \/ \E n \in GNodes : GoLeaveRoom(n)

SpecUpdatesFair == InitGossip /\ [][NextUpdates]_vars /\ ForwardersRun

\* the two sessions told of their neighbours
NextNeighbors ==
    \/ \E n \in GNodes : GoCreateTicket(n)
    \/ \E n \in GNodes : GoJoinTicket(n)
    \/ \E n \in GNodes, p \in GNodes : GoNeighbor(n, NeighborUp(p))
    \/ \E n \in GNodes, p \in GNodes : GoNeighbor(n, NeighborDown(p))
    \/ \E n \in GNodes : GoFwdTake(n)
    \/ \E n \in GNodes : GoLeaveRoom(n)

SpecNeighborsFair == InitGossip /\ [][NextNeighbors]_vars /\ ForwardersRun

\* the two sessions given the acknowledgements of a room of three
NextAcks ==
    \/ \E n \in GNodes : GoCreateTicket(n)
    \/ \E n \in GNodes : GoJoinTicket(n)
    \/ \E n \in GNodes, target \in RoomNodes, from \in RoomNodes :
          GoOverlayAck(n, target, from)
    \/ \E n \in GNodes : GoFwdTake(n)
    \/ \E n \in GNodes : GoLeaveRoom(n)

SpecAcks == InitGossip /\ [][NextAcks]_vars

\* ------------------------------------------------------------------------
\* sidecar/server.rs: calls of decode_ticket and encode_ticket
\* ------------------------------------------------------------------------
\* the hex parts of the tickets tried: 64 digits in lower and in upper case,
\* 62, 66 and 63 digits, a text with a character that is no digit, no text
TicketTopics == {TopicOf(0), TopicOf(17), TopicOf(171), TopicOf(255)}
Upper(text) ==
    [i \in 1..Len(text) |-> IF IsHexChar(text[i]) THEN UpperHexChars[HexVal(text[i]) + 1]
                            ELSE text[i]]
HexParts ==
    {hex_encode(t) : t \in TicketTopics}
      \cup {Upper(hex_encode(TopicOf(171)))}
      \cup {SubSeq(hex_encode(TopicOf(17)), 1, 2 * TOPIC_BYTES - 2),
            hex_encode(TopicOf(17)) \o <<"1", "1">>,
            SubSeq(hex_encode(TopicOf(17)), 1, 2 * TOPIC_BYTES - 1),
            <<"z">> \o SubSeq(hex_encode(TopicOf(17)), 1, 2 * TOPIC_BYTES - 1),
            <<"r", "o", "o", "m">>,
            <<>>}
\* what follows the hex part: nothing, '|' and an endpoint id, '|' and a text
\* that is no endpoint id, '|' alone, two '|'
TicketTails ==
    {<<>>, <<"|">> \o MyEndpointText, <<"|">> \o PeerEndpointText,
     <<"|">> \o BadEndpointText, <<"|">>,
     <<"|">> \o MyEndpointText \o <<"|">> \o PeerEndpointText}
TicketTexts == {h \o t : h \in HexParts, t \in TicketTails}

\* decode_ticket(ticket) is called and returns
TkDecode ==
    /\ ~tk_decoded.called
    /\ tk_decoded' = [called |-> TRUE, value |-> decode_ticket(tk_ticket)]
    /\ UNCHANGED tk_ticket
    /\ UNCHANGED notTicketVars

\* encode_ticket(&topic_bytes, &node_id) makes the next ticket
TkEncode(topic_bytes, node_id) ==
    /\ tk_decoded.called
    /\ tk_ticket' = encode_ticket(topic_bytes, node_id)
    /\ tk_decoded' = NotDecoded
    /\ UNCHANGED notTicketVars

InitTicket ==
    /\ LimiterInit /\ background = 0 /\ RoomInit /\ ServerInit
    /\ ClientInit /\ BridgeInit /\ GossipInit
    /\ tk_ticket \in TicketTexts
    /\ tk_decoded = NotDecoded

NextTicket ==
    \/ TkDecode
    \/ \E topic_bytes \in TicketTopics, node_id \in EndpointTexts :
          TkEncode(topic_bytes, node_id)

SpecTicket == InitTicket /\ [][NextTicket]_vars

\* ------------------------------------------------------------------------
\* Properties of the ConnectionLimiter (SpecLimiter)
\* ------------------------------------------------------------------------

\* C1: under every interleaving of try_connect / disconnect calls the global
\* counter stays within 0..MAX_TOTAL_CONNECTIONS and every per-IP counter within
\* 0..MAX_PER_IP (so two concurrent callers never share the last slot).
C1_CountersWithinCeilings ==
    /\ total_connections >= 0
    /\ total_connections <= MAX_TOTAL_CONNECTIONS
    /\ \A ip \in DOMAIN connections_per_ip :
          /\ connections_per_ip[ip] >= 0
          /\ connections_per_ip[ip] <= MAX_PER_IP

\* one caller has taken the last slot while another was waiting for the lock
C1_Witness ==
    \E p \in Agents : \E q \in Agents \ {p} :
        /\ total_connections = MAX_TOTAL_CONNECTIONS
        /\ lpc[p] = "idle" /\ lres[p] = "Ok"
        /\ lpc[q] = "tc_wait"

\* C2: try_connect tests the total ceiling first, then the per-IP ceiling; a
\* rejected call changes no counter, an accepted call adds exactly one to the
\* global counter and to the caller's IP counter, and nothing else raises a
\* counter.
C2_TryConnectOutcome ==
    [][/\ \A p \in Agents :
            (lpc[p] \in {"tc_wait", "tc_incr"} /\ lpc'[p] = "idle") =>
               /\ (lres'[p] = "TotalLimitReached")
                     <=> (total_connections >= MAX_TOTAL_CONNECTIONS)
               /\ (lres'[p] = "IpLimitReached")
                     <=> (/\ total_connections < MAX_TOTAL_CONNECTIONS
                          /\ ip_count(connections_per_ip, larg[p]) >= MAX_PER_IP)
               /\ (lres'[p] # "Ok") =>
                     /\ total_connections' = total_connections
                     /\ connections_per_ip' = connections_per_ip
               /\ (lres'[p] = "Ok") =>
                     /\ total_connections' = total_connections + 1
                     /\ \A ip \in IPs :
                          ip_count(connections_per_ip', ip) =
                            ip_count(connections_per_ip, ip)
                              + (IF ip = larg[p] THEN 1 ELSE 0)
       /\ (\/ total_connections' > total_connections
           \/ \E ip \in IPs : ip_count(connections_per_ip', ip)
                                 > ip_count(connections_per_ip, ip))
            => \E p \in Agents : lpc[p] = "tc_incr" /\ lres'[p] = "Ok"
      ]_vars

\* a call is rejected with TotalLimitReached while its IP is at its ceiling too
C2_Witness ==
    \E p \in Agents :
        /\ lres[p] = "TotalLimitReached"
        /\ lpc[p] = "idle"
        /\ \A ip \in DOMAIN connections_per_ip : connections_per_ip[ip] >= MAX_PER_IP
        /\ DOMAIN connections_per_ip # {}
        /\ total_connections >= MAX_TOTAL_CONNECTIONS

\* C3: disconnect(ip) for an ip with no entry in connections_per_ip changes
\* neither the global counter nor any per-IP entry.
C3_DisconnectUnknownIpIsNoop ==
    [][\A p \in Agents :
          (/\ lpc[p] = "dc_wait" /\ lpc'[p] = "idle"
           /\ larg[p] \notin DOMAIN connections_per_ip) =>
             /\ total_connections' = total_connections
             /\ connections_per_ip' = connections_per_ip
      ]_vars

\* ------------------------------------------------------------------------
\* Properties of the RoomManager (SpecRoomSeq, SpecRoomConc)
\* ------------------------------------------------------------------------
InRoom(node_id, ticket) == ticket \in DOMAIN rooms /\ node_id \in DOMAIN rooms[ticket]

CountMsg(q, m) == Cardinality({i \in 1..Len(q) : q[i] = m})

\* the messages sent on ch since the last call was issued
SentSince(ch) == SubSeq(queue[ch], Len(snap.queue[ch]) + 1, Len(queue[ch]))

\* the last call was leave(id), the call before it register(t, id) with t a
\* ticket that had no room, and both have completed
C5_RegisterThenLeave ==
    /\ AllIdle
    /\ snap.op = "leave"
    /\ snap.prev.op = "register"
    /\ snap.prev.node_id = snap.node_id
    /\ snap.prev.fresh

\* C5: the directory never holds a room without members, and after
\* register(ticket, id, tx) on an unseen ticket followed at once by leave(id)
\* there is no room for that ticket.
C5_NoEmptyRoom ==
    /\ \A t \in DOMAIN rooms : DOMAIN rooms[t] # {}
    /\ C5_RegisterThenLeave => snap.prev.ticket \notin DOMAIN rooms

\* register-then-leave has happened while another room exists
C5_Witness == C5_RegisterThenLeave /\ DOMAIN rooms # {}

\* the last call was register(T2, id) for an id that held another ticket T1,
\* and it has completed
C6_Moved ==
    /\ AllIdle
    /\ snap.op = "register"
    /\ snap.node_id \in DOMAIN snap.client_tickets
    /\ snap.client_tickets[snap.node_id] # snap.ticket

\* the members of the old room other than the identity that moves
C6_Remaining ==
    DOMAIN room_or_new(snap.rooms, snap.client_tickets[snap.node_id]) \ {snap.node_id}

\* C6: registering an identity that holds ticket T1 to another ticket T2 leaves
\* it a member of T2's room only; each member that remains in T1's room is sent
\* exactly one peer-left event for it, and T1's room is deleted if it became
\* empty.
C6_MoveBetweenTickets ==
    C6_Moved =>
      /\ InRoom(snap.node_id, snap.ticket)
      /\ \A t \in Tickets \ {snap.ticket} : ~InRoom(snap.node_id, t)
      /\ client_tickets[snap.node_id] = snap.ticket
      /\ \A ch \in Agents :
           /\ SubSeq(queue[ch], 1, Len(snap.queue[ch])) = snap.queue[ch]
           /\ CountMsg(SentSince(ch), PeerLeft(snap.node_id)) =
                Cardinality({m \in C6_Remaining :
                    snap.rooms[snap.client_tickets[snap.node_id]][m] = ch})
      /\ IF C6_Remaining = {}
         THEN snap.client_tickets[snap.node_id] \notin DOMAIN rooms
         ELSE /\ snap.client_tickets[snap.node_id] \in DOMAIN rooms
              /\ DOMAIN rooms[snap.client_tickets[snap.node_id]] = C6_Remaining

\* an identity has moved out of a room in which another member remains
C6_Witness == C6_Moved /\ C6_Remaining # {}

\* C7: register returns exactly the identities that were members of the
\* ticket's room before the call, and never the identity being registered.
C7_RegisterReturnsPriorMembers ==
    (AllIdle /\ snap.op = "register") =>
      /\ rret[snap.agent] = DOMAIN room_or_new(snap.rooms, snap.ticket)
      /\ snap.node_id \notin rret[snap.agent]

\* C8: once every register / leave has completed, an identity is a member of
\* room T exactly if the membership index maps it to T (so of at most one room).
C8_IndexAgreesWithRooms ==
    AllIdle =>
      \A n \in Ids : \A t \in Tickets :
          InRoom(n, t) <=> (n \in DOMAIN client_tickets /\ client_tickets[n] = t)

\* ------------------------------------------------------------------------
\* Properties of the server (SpecServer, SpecServerFair)
\* ------------------------------------------------------------------------
\* the connection holds an admission slot: try_connect has accepted it and the
\* body of its disconnect has not run
HoldsSlot(c) ==
    \/ cpc[c] \in {"handshake", "cl_leave"} \cup SessionPcs
    \/ cpc[c] \in {"hs_disc", "cl_disc"} /\ lpc[c] = "dc_wait"
    \/ cpc[c] = "admitting" /\ lpc[MainTask] = "idle" /\ lres[MainTask] = "Ok"

\* C4: a task calls limiter.disconnect at most once, exactly once by the time
\* it has ended, always for its own address, and never for a connection that
\* was rejected (or not yet admitted); the global counter equals the number of
\* admitted connections whose release has not run.
C4_ReleasedExactlyOnce ==
    /\ \A c \in Conns :
         /\ releases[c] <= 1
         /\ cpc[c] \in {"unborn", "admitting", "rejected"} => releases[c] = 0
         /\ cpc[c] = "closed" => releases[c] = 1
         /\ lpc[c] = "dc_wait" => larg[c] = cip[c]
         /\ lpc[c] \in {"idle", "dc_wait"}
    /\ total_connections = background + Cardinality({c \in Conns : HoldsSlot(c)})

\* one connection was rejected, another failed its handshake and has ended
C4_Witness ==
    \E c \in Conns : \E d \in Conns :
        /\ cpc[c] = "rejected"
        /\ cpc[d] = "closed" /\ exit_reason[d] = "handshake"

\* what the cleanup of an ended session has done
C9_CleanedUpOnce(c) ==
    /\ releases[c] <= 1
    /\ Len(cleanup_leaves[c]) <= 1
    /\ (cpc[c] = "closed" /\ exit_reason[c] \in {"timeout", "stream"}) =>
         /\ releases[c] = 1
         /\ cleanup_leaves[c] =
              (IF exit_held[c] = NoNode THEN <<>> ELSE <<exit_held[c]>>)

\* C9: a session whose read times out is eventually terminated, and a session
\* that ends by timeout, close frame, stream end or transport error has called
\* leave exactly once for the node_id it held (not at all if it held none) and
\* has released its admission slot exactly once.
C9_TimeoutCleansUpOnce ==
    /\ [](\A c \in Conns : C9_CleanedUpOnce(c))
    /\ \A c \in Conns : (exit_reason[c] = "timeout") ~> (cpc[c] = "closed")

\* a registered session has timed out and has ended
C9_Witness ==
    \E c \in Conns :
        /\ cpc[c] = "closed"
        /\ exit_reason[c] = "timeout"
        /\ exit_held[c] # NoNode

\* C10: a ReportPeerLeft frame from a session that holds no node_id changes
\* neither the directory nor any channel and starts no call; from a registered
\* session it starts leave for the reported node_id, and the steps of that leave
\* touch no other identity.
C10_ReportPeerLeft ==
    [][\A c \in Conns :
          /\ \A n \in Ids :
               RecvReportPeerLeft(c, n) =>
                 IF current_node_id[c] = NoNode
                 THEN /\ UNCHANGED <<rooms, client_tickets, queue, rpc, rargs>>
                      /\ cpc'[c] = "recv"
                 ELSE /\ UNCHANGED <<rooms, client_tickets, queue>>
                      /\ cpc'[c] = "rpl_leave"
                      /\ rpc'[c] = "lv_index"
                      /\ rargs'[c].node_id = n
          /\ (cpc[c] = "rpl_leave" /\ rpc'[c] # rpc[c]) =>
               /\ current_node_id[c] # NoNode
               /\ rargs[c].node_id = frame[c].node_id
               /\ \A n \in Ids \ {frame[c].node_id} :
                    /\ (n \in DOMAIN client_tickets) = (n \in DOMAIN client_tickets')
                    /\ \A t \in Tickets :
                         (t \in DOMAIN rooms /\ n \in DOMAIN rooms[t])
                           = (t \in DOMAIN rooms' /\ n \in DOMAIN rooms'[t])
      ]_vars

\* an unregistered session has ignored a report while an identity is registered
C10_Witness ==
    \E c \in Conns :
        /\ reports_ignored[c]
        /\ current_node_id[c] = NoNode
        /\ cpc[c] = "recv"
        /\ DOMAIN client_tickets # {}
        /\ DOMAIN rooms # {}

Closed == nm_pc = "closed"
LastEvent == IF nm_events = <<>> THEN EvReconnected ELSE nm_events[Len(nm_events)]
GaveUp == Closed /\ nm_events # <<>> /\ LastEvent = EvMaxAttempts
EventCount(ev) == Cardinality({i \in 1..Len(nm_events) : nm_events[i] = ev})

\* once the loop has returned: no event, no frame, no connect, no sleep
ClosedIsFinal ==
    Closed => UNCHANGED <<nm_pc, nm_events, ws_sent, ws_alive, attempt, backoff_ms,
                          nm_ok, nm_consec, nm_sleeps, nm_handled, registration>>

\* C12: eleven failed connects in a row make the loop give up: it has then sent
\* exactly ten Reconnecting events and, after them, exactly one terminal Error;
\* whenever the loop gives up, the terminal Error is sent once, directly after ten
\* Reconnecting events; and once it has returned nothing more is sent or tried.
C12_GivesUpAfterCeiling ==
    /\ [](/\ nm_consec <= MAX_RECONNECT_ATTEMPTS + 1
          /\ nm_consec = MAX_RECONNECT_ATTEMPTS + 1 =>
                /\ GaveUp
                /\ nm_events = Repeat(EvReconnecting, MAX_RECONNECT_ATTEMPTS)
                                  \o <<EvMaxAttempts>>
          /\ EventCount(EvMaxAttempts) > 0 => GaveUp
          /\ GaveUp =>
                /\ EventCount(EvMaxAttempts) = 1
                /\ Len(nm_events) > MAX_RECONNECT_ATTEMPTS
                /\ \A i \in 1..MAX_RECONNECT_ATTEMPTS :
                      nm_events[Len(nm_events) - i] = EvReconnecting)
    /\ [][ClosedIsFinal]_vars

\* eleven connects in a row have failed
C12_Witness == nm_consec = MAX_RECONNECT_ATTEMPTS + 1 /\ Closed

\* the delays of the claim
ClaimedDelays == <<2000, 4000, 8000, 16000, 30000, 30000, 30000, 30000, 30000, 30000>>

\* C13: the delays slept since the last successful connect (or the start) are
\* 2000, 4000, 8000, 16000, 30000, 30000, ...; backoff_ms stays within
\* 2000..30000; a connect that succeeds sets backoff_ms to 2000 and attempt to 0;
\* and the loop gives up only after ten sleeps since the last successful connect.
C13_BackoffSchedule ==
    /\ [](/\ INITIAL_BACKOFF_MS <= backoff_ms /\ backoff_ms <= MAX_BACKOFF_MS
          /\ Len(nm_sleeps) <= Len(ClaimedDelays)
          /\ \A i \in 1..Len(nm_sleeps) : nm_sleeps[i] = ClaimedDelays[i]
          /\ (nm_pc = "sleep" => backoff_ms = nm_sleeps[Len(nm_sleeps)])
          /\ (GaveUp => Len(nm_sleeps) = MAX_RECONNECT_ATTEMPTS))
    /\ [][nm_ok' # nm_ok =>
             /\ backoff_ms' = INITIAL_BACKOFF_MS
             /\ attempt' = 0
             /\ nm_sleeps' = <<>>]_vars

\* after a successful connect the loop has slept 30000 ms twice
C13_Witness == nm_ok > 0 /\ Len(nm_sleeps) >= 6 /\ backoff_ms = MAX_BACKOFF_MS

\* C14: taking a Leave command off the channel while connected sends one
\* Disconnected event and ends the loop; Disconnected is sent at most once, as
\* the last event; and once the loop has returned nothing more is sent or tried,
\* whatever the transport, the server and the owner do.
C14_LeaveEndsLoop ==
    /\ [](EventCount(EvDisconnected) > 0 =>
             /\ Closed
             /\ EventCount(EvDisconnected) = 1
             /\ LastEvent = EvDisconnected
             /\ EventCount(EvMaxAttempts) = 0)
    /\ [][(/\ nm_pc = "process"
            /\ nm_handled' # nm_handled
            /\ Head(cmd_rx).type = "leave") =>
              /\ nm_events' = Append(nm_events, EvDisconnected)
              /\ nm_pc' = "closed"
              /\ attempt' = attempt]_vars
    /\ [][Closed => Closed' /\ nm_events' = nm_events /\ nm_ok' = nm_ok]_vars

\* a Leave has ended the loop on its second connection
C14_Witness == Closed /\ LastEvent = EvDisconnected /\ nm_ok = 2 /\ nm_events # <<>>

\* C15: a connect that succeeds after at least one failed attempt since the last
\* successful connect (attempt > 0 when it returns) sends Reconnected; the first
\* connect, succeeding with no failure before it, sends none.
C15_ReconnectedAfterFailure ==
    [][nm_ok' # nm_ok =>
         nm_events' = IF attempt > 0 THEN <<EvReconnected>> ELSE <<>>]_vars

\* the registration of the last register command taken off the channel
RECURSIVE LastRegistration(_)
LastRegistration(h) ==
    IF h = <<>> THEN NoRegistration
    ELSE IF h[Len(h)].type = "register"
         THEN [ticket |-> h[Len(h)].ticket, node_id |-> h[Len(h)].node_id]
         ELSE LastRegistration(SubSeq(h, 1, Len(h) - 1))

Forwarders == {id \in DOMAIN tasks : tasks[id].kind = "forwarder"}
Relays == {id \in DOMAIN tasks : tasks[id].kind = "relay"}
SubscribedMarks == {"Created", "Joined", "JoinedViaNodeMaster"}

TypeBridge ==
    /\ bpc \in {"recv", "ct_subscribe", "jt_subscribe", "nm_first_event",
                 "nm_subscribe", "closed"}
    /\ bridge_cmds \in 0..MaxBridgeCmds
    /\ overlay_events \in 0..MaxOverlayEvents
    /\ DOMAIN tasks \subseteq TaskIds
    /\ nodemaster_client \in 0..Len(clients)
    /\ (current_topic_sender = NoTopic) = (current_topic = NoTopic)

C19_InvalidTicketNoChange ==
    [][\A ticket \in UndecodableTickets :
          BrJoinTicket(ticket) =>
            /\ Len(to_client') = 1
            /\ to_client'[1].msg.event = "InvalidTicket"
            /\ to_client'[1].msg.ticket = ticket
            /\ bpc' = "recv"
            /\ UNCHANGED <<current_topic, current_topic_sender,
                           current_receiver_task, nodemaster_client,
                           nodemaster_event_task, tasks, clients>>]_vars

\* an undecodable ticket was refused while a room, its forwarder, a client
\* and its relay were in place
C19_Witness ==
    /\ bridge_recent # <<>>
    /\ bridge_recent[Len(bridge_recent)] = "JoinTicket"
    /\ Len(to_client) >= 1
    /\ to_client[1].msg.event = "InvalidTicket"
    /\ to_client[1].msg.ticket \in UndecodableTickets
    /\ current_topic # NoTopic
    /\ Forwarders # {}
    /\ Relays # {}
    /\ nodemaster_client # NoClient

\* C20: UpdateSkin broadcasts one SkinUpdate under the node's own id, on the
\* topic of the room, when the session is in a room; when it is in none
\* (never joined, or after LeaveRoom) it broadcasts nothing and answers Error.
C20_UpdateSkinIffInRoom ==
    [][\A skin_id \in SkinIds, sent \in BOOLEAN :
          BrUpdateSkin(skin_id, sent) =>
            IF current_topic # NoTopic
            THEN /\ overlay_out' = <<Broadcast(current_topic, 0, "SkinUpdate",
                                               MyEndpointText, skin_id)>>
                 /\ \A i \in 1..Len(to_client') : to_client'[i].msg.event # "Error"
            ELSE /\ overlay_out' = <<>>
                 /\ to_client' = <<[by |-> 0, msg |-> BError(NotInRoomText)]>>]_vars

\* an update was broadcast in a room joined by ticket
C20_Witness ==
    /\ bridge_recent = <<"Joined", "UpdateSkin">>
    /\ current_topic = TopicOf(17)
    /\ overlay_out # <<>>
    /\ overlay_out[1] = Broadcast(TopicOf(17), 0, "SkinUpdate", MyEndpointText, 7)

\* the last command the discovery client with this number was given
LastCmd(c) == clients[c].cmds[Len(clients[c].cmds)]

PriorRoom == room_or_new(snap.rooms, snap.ticket)

\* C26: register(ticket, id, tx) sends one peer_joined{id} to each identity
\* that was a member of the ticket's room before the call (on the channel of
\* that member) and nothing else about id, and the channel passed in the
\* call, unless it is also the channel of another member, gets no
\* peer_joined about id from the call.
C26_RegisterNotifiesPriorMembers ==
    (AllIdle /\ snap.op = "register") =>
      /\ \A ch \in Agents :
           /\ SubSeq(queue[ch], 1, Len(snap.queue[ch])) = snap.queue[ch]
           /\ rx_open[ch] =>
                CountMsg(SentSince(ch), PeerJoined(snap.node_id)) =
                  Cardinality({m \in DOMAIN PriorRoom : PriorRoom[m] = ch})
      /\ (\A m \in DOMAIN PriorRoom \ {snap.node_id} : PriorRoom[m] # snap.agent)
           => CountMsg(SentSince(snap.agent), PeerJoined(snap.node_id)) = 0

\* the last call was leave(id) and has completed; the ticket id held and the
\* other members of that room, as the call found them
C27_Left == AllIdle /\ snap.op = "leave"
C27_Registered == snap.node_id \in DOMAIN snap.client_tickets
C27_Ticket == snap.client_tickets[snap.node_id]
C27_Remaining == DOMAIN room_or_new(snap.rooms, C27_Ticket) \ {snap.node_id}

\* C27: leave(id) for a registered identity removes it from the index and
\* from its room and sends one peer_left{id} to each member that remains in
\* that room, on that member's channel, and nothing else to anyone (so none
\* to the identity that leaves and none to the members of other rooms), and
\* the other rooms are untouched; leave(id) for an identity that is not
\* registered changes neither the index, nor the rooms, nor any channel.
C27_LeaveNotifiesRemaining ==
    C27_Left =>
      IF C27_Registered
      THEN /\ snap.node_id \notin DOMAIN client_tickets
           /\ \A t \in Tickets : ~InRoom(snap.node_id, t)
           /\ \A id \in DOMAIN snap.client_tickets \ {snap.node_id} :
                 id \in DOMAIN client_tickets
                   /\ client_tickets[id] = snap.client_tickets[id]
           /\ \A ch \in Agents :
                 /\ SubSeq(queue[ch], 1, Len(snap.queue[ch])) = snap.queue[ch]
                 /\ SentSince(ch) =
                      Repeat(PeerLeft(snap.node_id),
                             Cardinality({m \in C27_Remaining :
                                            snap.rooms[C27_Ticket][m] = ch}))
           /\ \A t \in DOMAIN snap.rooms \ {C27_Ticket} :
                 t \in DOMAIN rooms /\ rooms[t] = snap.rooms[t]
           /\ IF C27_Remaining = {} THEN C27_Ticket \notin DOMAIN rooms
              ELSE DOMAIN rooms[C27_Ticket] = C27_Remaining
      ELSE /\ rooms = snap.rooms
           /\ client_tickets = snap.client_tickets
           /\ queue = snap.queue

\* an identity has left a room in which a member remains, and that member
\* was told on its channel
C27_Witness ==
    /\ C27_Left
    /\ C27_Registered
    /\ \E m \in C27_Remaining :
          SentSince(snap.rooms[C27_Ticket][m]) = <<PeerLeft(snap.node_id)>>

\* register of an identity that the room does not hold yet
C26_FreshRegister ==
    (AllIdle /\ snap.op = "register" /\ snap.node_id \notin DOMAIN PriorRoom)
      => C26_RegisterNotifiesPriorMembers

\* C24: a step by which the session abandons its room (LeaveRoom, JoinTicket
\* with a ticket that decodes, CreateTicket) leaves neither a forwarder nor a
\* relay task of the abandoned room live, so that no event of the old room
\* can be passed to the client afterwards.
C24_NoTaskLeak ==
    [][(\/ BrLeaveRoom
        \/ \E topic_bytes \in RandomTopics : BrCreateTicket(topic_bytes)
        \/ \E ticket \in BridgeTickets :
              decode_ticket(ticket).some /\ BrJoinTicket(ticket))
       => Forwarders' = {} /\ Relays' = {}]_vars

\* ------------------------------------------------------------------------
\* Properties of the forwarders of two sidecars (SpecUpdatesFair, SpecNeighborsFair)

IsUpdateEvent(ev) == ev.event = "Received" /\ ev.content.type = "SkinUpdate"
IsAckEvent(ev) == ev.event = "Received" /\ ev.content.type = "SkinAck"
IsNeighborEvent(ev) == ev.event # "Received"
IsRemoteSkinUpdate(msg) == msg.event = "RemoteSkinUpdate"
IsSyncConfirmed(msg) == msg.event = "SyncConfirmed"
IsPeerEvent(msg) == msg.event \in {"PeerJoined", "PeerLeft"}
IsAck(content) == content.type = "SkinAck"

\* the events the forwarder of n has taken, and all it was given
TakenBy(n) == SubSeq(g_delivered[n], 1, g_taken[n])
UpdatesTaken(n) == SelectSeq(TakenBy(n), IsUpdateEvent)
UpdatesGiven(n) == SelectSeq(g_delivered[n], IsUpdateEvent)
IsAckFor(n, ev) == IsAckEvent(ev) /\ ev.content.peer_id = n
AcksTakenFor(n) ==
    SelectSeq(TakenBy(n), LAMBDA ev : IsAckFor(n, ev))
AcksGivenFor(n) ==
    SelectSeq(g_delivered[n], LAMBDA ev : IsAckFor(n, ev))
Aborted(n) == g_fpc[n] = "aborted"

\* C22: a forwarder that takes SkinUpdate{peer_id: B, skin} sends
\* RemoteSkinUpdate{B, skin} to its client and then broadcasts
\* SkinAck{target_peer_id: B}, once for every update it takes and in their
\* order; a forwarder that takes an acknowledgement addressed to its own node
\* sends SyncConfirmed carrying the node the acknowledgement was delivered
\* from; and, unless the forwarder is aborted by LeaveRoom, every update given
\* to it is acknowledged and every acknowledgement given to the node it is
\* addressed to is confirmed.
C22_AcknowledgedBroadcast ==
    /\ [](\A n \in GNodes :
            LET ups == UpdatesTaken(n)
                rem == SelectSeq(g_out[n], IsRemoteSkinUpdate)
                acks == SelectSeq(g_bcast[n], IsAck)
                syn == SelectSeq(g_out[n], IsSyncConfirmed)
                got == AcksTakenFor(n)
            IN /\ rem = [i \in 1..Len(ups) |->
                           RemoteSkinUpdate(ups[i].content.peer_id,
                                            ups[i].content.skin_id)]
               /\ Len(acks) <= Len(ups)
               /\ Len(acks) >= Len(ups) - 1
               /\ (g_fpc[n] = "next" => Len(acks) = Len(ups))
               /\ \A i \in 1..Len(acks) : acks[i] = GSkinAck(ups[i].content.peer_id)
               /\ syn = [i \in 1..Len(got) |-> SyncConfirmed(got[i].peer)])
    /\ \A n \in GNodes : \A k \in 1..(MaxUpdates + 1) :
          /\ (Len(UpdatesGiven(n)) >= k)
                ~> (Aborted(n) \/
                    /\ Len(SelectSeq(g_out[n], IsRemoteSkinUpdate)) >= k
                    /\ Len(SelectSeq(g_bcast[n], IsAck)) >= k)
          /\ (Len(AcksGivenFor(n)) >= k)
                ~> (Aborted(n) \/ Len(SelectSeq(g_out[n], IsSyncConfirmed)) >= k)

\* B's update was shown to A's client, acknowledged by A, and the
\* acknowledgement confirmed to B's client as coming from A
C22_Witness ==
    /\ g_bcast[PeerEndpointText] = <<GSkinUpdate(PeerEndpointText, 7)>>
    /\ \E i \in 1..Len(g_out[MyEndpointText]) :
          g_out[MyEndpointText][i] = RemoteSkinUpdate(PeerEndpointText, 7)
    /\ g_bcast[MyEndpointText] = <<GSkinAck(PeerEndpointText)>>
    /\ \E i \in 1..Len(g_out[PeerEndpointText]) :
          g_out[PeerEndpointText][i] = SyncConfirmed(MyEndpointText)

NeighborsTaken(n) == SelectSeq(TakenBy(n), IsNeighborEvent)
NeighborsGiven(n) == SelectSeq(g_delivered[n], IsNeighborEvent)
PeerEventsOut(n) == SelectSeq(g_out[n], IsPeerEvent)

\* C25: in a room made by CreateTicket and joined by JoinTicket, the PeerJoined
\* and PeerLeft messages a session gives its client are those of the
\* NeighborUp and NeighborDown events its forwarder took, one message an event,
\* with the event's id and in the order of the events; and every such event
\* the overlay hands to a forwarder is taken, unless LeaveRoom aborts the
\* forwarder.
C25_NeighborsForwarded ==
    /\ [](\A n \in GNodes :
            LET nb == NeighborsTaken(n)
            IN PeerEventsOut(n) =
                 [i \in 1..Len(nb) |->
                    IF nb[i].event = "NeighborUp" THEN BPeerJoined(nb[i].peer)
                    ELSE BPeerLeft(nb[i].peer)])
    /\ \A n \in GNodes : \A k \in 1..(MaxNeighborEvents + 1) :
          (Len(NeighborsGiven(n)) >= k)
            ~> (Aborted(n) \/ Len(PeerEventsOut(n)) >= k)

\* A created the room, B joined it by the ticket, A was told that B came up
\* and then that it went down
C25_Witness ==
    /\ g_out[MyEndpointText] =
         <<TicketCreated(encode_ticket(TopicOf(17), MyEndpointText)),
           BPeerJoined(PeerEndpointText), BPeerLeft(PeerEndpointText)>>
    /\ g_out[PeerEndpointText] =
         <<JoinedRoom(encode_ticket(TopicOf(17), MyEndpointText))>>

\* ------------------------------------------------------------------------
\* Properties of the tickets (SpecTicket)

\* 64 hex digits, and the 32 bytes they spell
IsHexPayload(text) ==
    Len(text) = 2 * TOPIC_BYTES /\ \A i \in 1..Len(text) : IsHexChar(text[i])
PayloadBytes(text) ==
    [i \in 1..TOPIC_BYTES |-> 16 * HexVal(text[2 * i - 1]) + HexVal(text[2 * i])]
\* the text before the first '|', the whole text if there is none
HexPartOf(text) ==
    IF \E i \in 1..Len(text) : text[i] = "|"
    THEN SubSeq(text, 1, (CHOOSE i \in 1..Len(text) :
                            text[i] = "|" /\ \A j \in 1..(i - 1) : text[j] # "|") - 1)
    ELSE text
IdPartOf(text) == SubSeq(text, Len(HexPartOf(text)) + 2, Len(text))
HasBar(text) == Len(HexPartOf(text)) < Len(text)

\* C23: "<64 hex digits>|<id>" decodes to the 32 bytes of the digits and the
\* bootstrap identity <id>; 64 hex digits alone decode to the same bytes and
\* no identity; a text whose hex part is no hex or not 32 bytes does not
\* decode; and a ticket made by encode_ticket(topic, id) decodes to topic and
\* id.
C23_TicketDecoding ==
    tk_decoded.called =>
      LET d == tk_decoded.value
          h == HexPartOf(tk_ticket)
      IN /\ (IsHexPayload(h) /\ HasBar(tk_ticket)) =>
               /\ d.some
               /\ d.topic_bytes = PayloadBytes(h)
               /\ d.node_id = IdPartOf(tk_ticket)
         /\ (IsHexPayload(h) /\ ~HasBar(tk_ticket)) =>
               /\ d.some
               /\ d.topic_bytes = PayloadBytes(h)
               /\ d.node_id = NoEndpoint
         /\ ~IsHexPayload(h) => ~d.some
         /\ \A topic_bytes \in TicketTopics, node_id \in EndpointTexts :
               tk_ticket = encode_ticket(topic_bytes, node_id) =>
                 d = [some |-> TRUE, topic_bytes |-> topic_bytes, node_id |-> node_id]

\* the same where the text after the '|' is an endpoint id: what the code does
C23_DecodingOfEndpointIds ==
    tk_decoded.called =>
      LET d == tk_decoded.value
          h == HexPartOf(tk_ticket)
      IN /\ (IsHexPayload(h) /\ HasBar(tk_ticket)) =>
               /\ d.some
               /\ d.topic_bytes = PayloadBytes(h)
               /\ d.node_id = IF IdPartOf(tk_ticket) \in EndpointTexts
                               THEN IdPartOf(tk_ticket) ELSE NoEndpoint
         /\ (IsHexPayload(h) /\ ~HasBar(tk_ticket)) =>
               /\ d.some
               /\ d.topic_bytes = PayloadBytes(h)
               /\ d.node_id = NoEndpoint
         /\ ~IsHexPayload(h) => ~d.some
         /\ \A topic_bytes \in TicketTopics, node_id \in EndpointTexts :
               tk_ticket = encode_ticket(topic_bytes, node_id) =>
                 d = [some |-> TRUE, topic_bytes |-> topic_bytes, node_id |-> node_id]

\* ---------------------------------------------------------------------------
\* Further properties of the rendezvous sessions (SpecServer)
\* ---------------------------------------------------------------------------

\* the registrations of the directory that deliver to the channel of c
RegisteredBy(c) ==
    {tn \in Tickets \X Ids :
        /\ tn[1] \in DOMAIN rooms
        /\ tn[2] \in DOMAIN rooms[tn[1]]
        /\ rooms[tn[1]][tn[2]] = c}

\* no other connection has been accepted
Alone(c) == \A d \in Conns \ {c} : cpc[d] = "unborn"

\* C28: a session holds at most one identity at a time.  A Register under an
\* identity other than the held one first calls leave for the held identity and
\* registers nothing yet; after that leave it holds the new identity and calls
\* register for the frame's ticket and identity; after register it sends Peers
\* with the returned list to its own client.  A Leave calls leave for the held
\* identity and, after it, the session holds none.  A Ping appends Pong to the
\* session's own channel and changes nothing else.  While it is the only
\* session, the directory holds at most one registration that delivers to it,
\* and that one is under the identity it holds.
C28_OneIdentityPerSession ==
    [][\A c \in Conns :
         /\ \A ticket \in Tickets, node_id \in Ids :
              (/\ RecvRegister(c, ticket, node_id)
               /\ current_node_id[c] # NoNode
               /\ current_node_id[c] # node_id)
              => /\ rpc'[c] = "lv_index"
                 /\ rargs'[c].node_id = current_node_id[c]
                 /\ cpc'[c] = "reg_leave_old"
                 /\ current_node_id'[c] = current_node_id[c]
                 /\ rooms' = rooms /\ client_tickets' = client_tickets
                 /\ queue' = queue
         /\ (cpc[c] = "reg_leave_old" /\ cpc'[c] # "reg_leave_old")
              => /\ rpc[c] = "idle"
                 /\ cpc'[c] = "reg_register"
                 /\ current_node_id'[c] = frame[c].node_id
                 /\ rpc'[c] = "reg_check"
                 /\ rargs'[c] = [ticket |-> frame[c].ticket,
                                 node_id |-> frame[c].node_id]
         /\ (cpc[c] = "reg_register" /\ cpc'[c] # "reg_register")
              => /\ rpc[c] = "idle"
                 /\ cpc'[c] = "recv"
                 /\ current_node_id'[c] = frame[c].node_id
                 /\ current_node_id'[c] = current_node_id[c]
                 /\ rx_open[c] =>
                      queue' = [queue EXCEPT ![c] = Append(@, PeersMsg(rret[c]))]
                 /\ rooms' = rooms /\ client_tickets' = client_tickets
         /\ (RecvLeave(c) /\ current_node_id[c] # NoNode)
              => /\ rpc'[c] = "lv_index"
                 /\ rargs'[c].node_id = current_node_id[c]
                 /\ cpc'[c] = "lv_leave"
         /\ (cpc[c] = "lv_leave" /\ cpc'[c] # "lv_leave")
              => /\ rpc[c] = "idle"
                 /\ cpc'[c] = "recv"
                 /\ current_node_id'[c] = NoNode
         /\ RecvPing(c)
              => /\ rx_open[c] => queue' = [queue EXCEPT ![c] = Append(@, Pong)]
                 /\ ~rx_open[c] => queue' = queue
                 /\ UNCHANGED <<rooms, client_tickets, current_node_id, cpc, rpc,
                                rargs, frame>>
         /\ Alone(c)' =>
              /\ Cardinality(RegisteredBy(c)') <= 1
              /\ \A tn \in RegisteredBy(c)' : tn[2] = current_node_id'[c]
      ]_vars

\* a session that held "a" has registered under "b": the room of "a" is gone,
\* "b" is registered on the session's channel, and Peers was sent to it
C28_Witness ==
    \E c \in Conns :
        /\ cpc[c] = "recv"
        /\ nframes = 2
        /\ current_node_id[c] = "b"
        /\ RegisteredBy(c) = {<<"T2", "b">>}
        /\ Len(queue[c]) = 2
        /\ queue[c][2] = PeersMsg({})

\* ---------------------------------------------------------------------------
\* Further property of the NodeMasterClient (SpecClient)
\* ---------------------------------------------------------------------------

\* C29: when process_messages takes a Leave command off the command channel
\* while the transport is up, the Leave frame is sent on the transport in the
\* step that ends the session.
C29_LeaveFrameSent ==
    [][(/\ nm_pc = "process"
        /\ ws_alive
        /\ cmd_rx # <<>>
        /\ Head(cmd_rx).type = "leave"
        /\ nm_handled' = Append(nm_handled, Head(cmd_rx)))
       => ws_sent' = Append(ws_sent, Head(cmd_rx))]_vars

\* ---------------------------------------------------------------------------
\* Further property of the bridge session's relay task (SpecBridge)
\* ---------------------------------------------------------------------------

\* C30: the relay task passes the PeerLeft and the Error events of the
\* NodeMasterClient to the local client as output events, and ends on
\* Disconnected; the session's own loop is untouched by any of them.
C30_RelayPassesErrors ==
    [][\A id \in TaskIds :
         /\ RelayEvent(id, "PeerLeft")
              => /\ Len(to_client') = Len(to_client) + 1
                 /\ to_client'[Len(to_client')].by = id
                 /\ to_client'[Len(to_client')].msg.event = "PeerLeft"
                 /\ id \in DOMAIN tasks'
                 /\ bpc' = bpc
         /\ RelayEvent(id, "Error")
              => /\ Len(to_client') = Len(to_client) + 1
                 /\ to_client'[Len(to_client')].by = id
                 /\ to_client'[Len(to_client')].msg.event = "Error"
                 /\ id \in DOMAIN tasks'
                 /\ bpc' = bpc
         /\ RelayEvent(id, "Disconnected")
              => /\ id \notin DOMAIN tasks'
                 /\ to_client' = to_client
                 /\ bpc' = bpc
      ]_vars

\* ---------------------------------------------------------------------------
\* Further properties of the bridge session (SpecBridge)
\* ---------------------------------------------------------------------------

\* the one message the session itself has sent the client since the command
OnlyReply(q, event) ==
    /\ Len(SelectSeq(q, LAMBDA m : m.by = 0)) = 1
    /\ \A i \in DOMAIN q : q[i].by = 0 => q[i].msg.event = event

\* the session's reply to a subscribe that succeeded: the topic, the sender and
\* a forwarder of that topic are installed
InstalledAfter(topic) ==
    /\ current_topic' = topic
    /\ current_topic_sender' = topic
    /\ current_receiver_task' \in DOMAIN tasks'
    /\ tasks'[current_receiver_task'].kind = "forwarder"
    /\ tasks'[current_receiver_task'].topic = topic

\* C31: when gossip.subscribe fails in CreateTicket, JoinTicket or
\* JoinViaNodeMaster the session sends the client one Error and neither
\* TicketCreated nor JoinedRoom, and goes back to receiving commands with the
\* connection open; a subscribe that succeeds, whatever came before it, is
\* answered TicketCreated or JoinedRoom with the topic, sender and forwarder
\* installed.
C31_SubscribeErrorIsReported ==
    [][/\ (BrCreateSubscribed(FALSE) \/ BrJoinSubscribed(FALSE) \/ BrNmSubscribed(FALSE))
          => /\ OnlyReply(to_client', "Error")
             /\ to_client'[Len(to_client')].msg.message # ""
             /\ bpc' = "recv"
       /\ BrCreateSubscribed(TRUE)
          => /\ OnlyReply(to_client', "TicketCreated")
             /\ InstalledAfter(bcmd.topic)
       /\ (BrJoinSubscribed(TRUE) \/ BrNmSubscribed(TRUE))
          => /\ OnlyReply(to_client', "JoinedRoom")
             /\ InstalledAfter(bcmd.topic)
      ]_vars

\* a CreateTicket whose subscribe failed was sent again and answered
\* TicketCreated
C31_Witness ==
    /\ bpc = "recv"
    /\ bridge_recent = <<"CreateTicket", "Created">>
    /\ bridge_cmds = 2
    /\ OnlyReply(to_client, "TicketCreated")

\* C37: between commands the session holds a sender iff it holds the handle of
\* a forwarder, and the forwarder, while it runs, forwards the topic of the
\* sender.
C37_SenderIffForwarder ==
    bpc = "recv" =>
        /\ current_topic_sender # NoTopic <=> current_receiver_task # NoTask
        /\ (current_receiver_task \in DOMAIN tasks) =>
              tasks[current_receiver_task].topic = current_topic_sender

\* the connection loops still running: those of the clients made whose command
\* channel never carried Leave
LiveLoops ==
    {i \in DOMAIN clients :
        \A k \in DOMAIN clients[i].cmds : clients[i].cmds[k].type # "leave"}

\* C38: at most one connection loop of a NodeMasterClient is running for the
\* session, and once the session is closed none is, and no relay task.
C38_OneDiscoveryLoop ==
    /\ Cardinality(LiveLoops) <= 1
    /\ bpc = "closed" =>
          /\ LiveLoops = {}
          /\ \A id \in DOMAIN tasks : tasks[id].kind # "relay"

\* C39: a JoinViaNodeMaster with a ticket that JoinTicket accepts subscribes to
\* the topic JoinTicket takes from that ticket.
C39_SameTopicOnBothPaths ==
    (bpc \in {"nm_first_event", "nm_subscribe"} /\ decode_ticket(bcmd.ticket).some)
       => bcmd.topic = decode_ticket(bcmd.ticket).topic_bytes

\* ---------------------------------------------------------------------------
\* Property of the forwarder's handling of acknowledgements (SpecAcks)
\* ---------------------------------------------------------------------------

IsSessionReply(msg) == msg.event \in {"TicketCreated", "JoinedRoom", "LeftRoom"}
IsAckForOther(n, ev) == IsAckEvent(ev) /\ ev.content.peer_id # n

\* C32: what a forwarder gives its client for the acknowledgements it has
\* taken is one SyncConfirmed for each of them whose target is the session's
\* own node, in their order and carrying the node the overlay delivered it
\* from, and nothing for an acknowledgement with another target.
C32_SyncConfirmedOnlyForOwnAck ==
    \A n \in GNodes :
        LET got == AcksTakenFor(n)
            out == SelectSeq(g_out[n], LAMBDA m : ~IsSessionReply(m))
        IN out = [i \in 1..Len(got) |-> SyncConfirmed(got[i].peer)]

\* a forwarder has taken an acknowledgement for another node and one for its
\* own, delivered from the third session, and has confirmed the second only
C32_Witness ==
    \E n \in GNodes :
        /\ g_taken[n] = 2
        /\ IsAckForOther(n, g_delivered[n][1])
        /\ g_delivered[n][2] = Received(GSkinAck(n), ThirdEndpointText)
        /\ SelectSeq(g_out[n], IsSyncConfirmed) = <<SyncConfirmed(ThirdEndpointText)>>

\* ---------------------------------------------------------------------------
\* Further properties of concurrent rendezvous sessions (SpecServer)
\* ---------------------------------------------------------------------------

\* node_id is registered under ticket, in the index and in the room, with the
\* channel of connection d
RegisteredFor(d, ticket, node_id) ==
    /\ node_id \in DOMAIN client_tickets
    /\ client_tickets[node_id] = ticket
    /\ ticket \in DOMAIN rooms
    /\ node_id \in DOMAIN rooms[ticket]
    /\ rooms[ticket][node_id] = d

\* the leave a connection makes for itself: in its cleanup, for its Leave, or
\* for the node_id it held before a Register under another
LeavesForItself(c) ==
    /\ cpc[c] \in {"cl_leave", "lv_leave", "reg_leave_old"}
    /\ rpc[c] \in {"lv_index", "lv_rooms"}

\* C33: a step of the leave a connection makes for itself never takes away the
\* registration held, in the index and in the room, by another connection that
\* is receiving and holds that node_id.
C33_CleanupSparesOtherConnections ==
    [][\A c \in Conns, d \in Conns, ticket \in Tickets, node_id \in Ids :
         (/\ c # d
          /\ LeavesForItself(c)
          /\ rpc'[c] # rpc[c]
          /\ cpc[d] = "recv"
          /\ current_node_id[d] = node_id
          /\ RegisteredFor(d, ticket, node_id))
         => RegisteredFor(d, ticket, node_id)'
      ]_vars

\* register has returned to the session and its Peers frame is not yet sent
PeersPending(c) == cpc[c] = "reg_register" /\ rpc[c] = "idle"

\* C34: from the return of register to the sending of the session's Peers
\* frame, no peer_joined frame of another identity is put on the session's
\* channel: Peers comes before the peer_joined of every identity registered
\* after the session's.
C34_PeersBeforeLaterJoins ==
    [][\A c \in Conns :
         (PeersPending(c) /\ PeersPending(c)')
         => \A i \in (Len(queue[c]) + 1)..Len(queue'[c]) :
               ~(/\ queue'[c][i].type = "peer_joined"
                 /\ queue'[c][i].node_id # current_node_id[c])
      ]_vars

\* ---------------------------------------------------------------------------
\* Further property of the ConnectionLimiter under the server (SpecServer)
\* ---------------------------------------------------------------------------

RECURSIVE SumOver(_, _)
SumOver(f, S) ==
    IF S = {} THEN 0
    ELSE LET x == CHOOSE y \in S : TRUE IN f[x] + SumOver(f, S \ {x})

\* the sum of the per-IP counters
PerIpSum(per_ip) == SumOver(per_ip, DOMAIN per_ip)

\* C35: under the server, which calls disconnect only for admitted
\* connections, every step changes the sum of the per-IP counters and the
\* global counter by the same amount, so that they are equal when no
\* connection of an address outside the map is counted; and the per-IP map
\* never holds an entry whose count is zero.
C35_PerIpSumIsTotal ==
    [][/\ \A ip \in DOMAIN connections_per_ip' : connections_per_ip'[ip] > 0
       /\ total_connections' - PerIpSum(connections_per_ip')
            = total_connections - PerIpSum(connections_per_ip)
       /\ background = 0 => total_connections' = PerIpSum(connections_per_ip')
      ]_vars

\* both connections were admitted and both have been released: each entry of
\* the map was removed when its count reached zero
C35_Witness ==
    /\ background = 0
    /\ \A c \in Conns : cpc[c] = "closed" /\ releases[c] = 1
    /\ connections_per_ip = EmptyMap
    /\ total_connections = 0

\* ---------------------------------------------------------------------------
\* Further property of the forwarders of two sidecars (SpecUpdatesFair)
\* ---------------------------------------------------------------------------

\* the acknowledgements broadcast, by any node, for the updates of node a
AcksBroadcastBy(n, a) ==
    Cardinality({i \in DOMAIN g_bcast[n] : g_bcast[n][i] = GSkinAck(a)})
AcksBroadcastFor(a) ==
    AcksBroadcastBy(MyEndpointText, a) + AcksBroadcastBy(PeerEndpointText, a)

\* the forwarder of n takes an acknowledgement in this step
TakesAck(n) ==
    /\ g_taken'[n] = g_taken[n] + 1
    /\ IsAckEvent(g_delivered[n][g_taken[n] + 1])

IsTerminal(ev) == ev \in {EvDisconnected, EvMaxAttempts}

\* C40: the loop returns only with a terminal event (Disconnected or the Error
\* of the ceiling) as the last event sent, a terminal event is sent only by the
\* step that returns, and after it the loop sends no event and no frame and
\* makes no connect, whatever the owner and the transport do; attempt never
\* exceeds MAX_RECONNECT_ATTEMPTS + 1.
C40_ClosedIsAbsorbing ==
    /\ [](/\ attempt <= MAX_RECONNECT_ATTEMPTS + 1
          /\ Closed => nm_events # <<>> /\ IsTerminal(LastEvent)
          /\ \A i \in DOMAIN nm_events :
                IsTerminal(nm_events[i]) => Closed /\ i = Len(nm_events))
    /\ [][Closed => /\ Closed'
                    /\ UNCHANGED <<nm_events, ws_sent, ws_alive, attempt, backoff_ms,
                                   nm_ok, nm_consec, nm_sleeps, nm_handled, cmd_rx>>
         ]_vars
    /\ [][~Closed /\ Closed' => /\ Len(nm_events') = Len(nm_events) + 1
                               /\ ws_sent' = ws_sent]_vars

\* the loop gave up at attempt 11, and a command the owner issued is neither
\* waiting nor handled
C40_Witness ==
    /\ Closed
    /\ attempt = MAX_RECONNECT_ATTEMPTS + 1
    /\ LastEvent = EvMaxAttempts
    /\ nm_issued # <<>>
    /\ nm_handled = <<>>
    /\ cmd_rx = <<>>

====
